---- MODULE Spec2Model ----
(***************************************************************************)
(* A model of the LCT dashboard's data pipeline: the three normalizers,    *)
(* mergeAndClassifyData, computeAnalytics (utils/csvProcessor) and the      *)
(* upload handler of AppRoot (App.tsx).                                     *)
(*                                                                          *)
(* JavaScript values are tagged records, objects and Maps are sequences of  *)
(* key/value entries in insertion order, strings are TLA+ strings handled   *)
(* character by character.  A number n of the program is held as the        *)
(* integer n * Scale, so that h + m/60 + s/3600 stays exact.                *)
(***************************************************************************)
EXTENDS Integers, Sequences, FiniteSets, TLC

\* ------------------------------------------------------------------------
\* Bounds of the model
\* ------------------------------------------------------------------------
MaxLegacy == 2

MaxModern == 1

MaxTime == 2

MaxRuns == 2

\* rows of a Legacy or Modern sheet handed to a normalizer on its own
MaxRawRows == 3

\* rows of a Time Spent sheet handed to the normalizer on its own
MaxEntryRows == 7

\* ------------------------------------------------------------------------
\* JavaScript values
\* ------------------------------------------------------------------------
\* seconds / 3600 (extractNumber): numbers are held in units of 1/3600
Scale == 3600

MinutesPerHour == 60

Undefined == [t |-> "undefined"]

Str(s) == [t |-> "string", s |-> s]

Num(n) == [t |-> "number", n |-> n]

NaN == [t |-> "nan"]

IsStr(v) == v.t = "string"

IsNum(v) == v.t = "number"

\* ToBoolean: undefined, '', 0 and NaN are falsy
Truthy(v) ==
    CASE v.t = "undefined" -> FALSE
      [] v.t = "nan" -> FALSE
      [] v.t = "string" -> v.s # ""
      [] v.t = "number" -> v.n # 0
      [] OTHER -> TRUE

\* a || b
Or(a, b) == IF Truthy(a) THEN a ELSE b

\* the number n of the program, scaled
Whole(n) == Num(n * Scale)

\* ------------------------------------------------------------------------
\* Strings
\* ------------------------------------------------------------------------
Char(s, i) == SubSeq(s, i, i)

UpperChars == "ABCDEFGHIJKLMNOPQRSTUVWXYZ"

LowerChars == "abcdefghijklmnopqrstuvwxyz"

DigitChars == "0123456789"

CharsOf(alphabet) == {Char(alphabet, i) : i \in 1..Len(alphabet)}

UpperSet == CharsOf(UpperChars)

DigitSet == CharsOf(DigitChars)

\* \w
WordSet == CharsOf(UpperChars) \cup CharsOf(LowerChars) \cup CharsOf(DigitChars) \cup {"_"}

\* \s
SpaceSet == {" ", "\t", "\n"}

LowerOf ==
    [c \in UpperSet |-> Char(LowerChars, CHOOSE i \in 1..Len(UpperChars) : Char(UpperChars, i) = c)]

DigitValue ==
    [c \in DigitSet |-> (CHOOSE i \in 1..Len(DigitChars) : Char(DigitChars, i) = c) - 1]

IsDigit(c) == c \in DigitSet

IsSpace(c) == c \in SpaceSet

IsWord(c) == c \in WordSet

LowerChar(c) == IF c \in UpperSet THEN LowerOf[c] ELSE c

RECURSIVE MapChars(_, _)
MapChars(s, i) ==
    IF i > Len(s) THEN "" ELSE LowerChar(Char(s, i)) \o MapChars(s, i + 1)

\* String.prototype.toLowerCase
ToLowerCase(s) == MapChars(s, 1)

RECURSIVE TrimStart(_)
TrimStart(s) ==
    IF Len(s) > 0 /\ IsSpace(Char(s, 1)) THEN TrimStart(SubSeq(s, 2, Len(s))) ELSE s

RECURSIVE TrimEnd(_)
TrimEnd(s) ==
    IF Len(s) > 0 /\ IsSpace(Char(s, Len(s))) THEN TrimEnd(SubSeq(s, 1, Len(s) - 1)) ELSE s

\* String.prototype.trim
Trim(s) == TrimEnd(TrimStart(s))

\* String.prototype.includes
Includes(s, sub) ==
    \E i \in 1..(Len(s) - Len(sub) + 1) : SubSeq(s, i, i + Len(sub) - 1) = sub

\* s.replace(/\s+/g, ' ')
RECURSIVE CollapseSpaces(_, _)
CollapseSpaces(s, i) ==
    IF i > Len(s) THEN ""
    ELSE IF IsSpace(Char(s, i))
         THEN IF i > 1 /\ IsSpace(Char(s, i - 1))
              THEN CollapseSpaces(s, i + 1)
              ELSE " " \o CollapseSpaces(s, i + 1)
         ELSE Char(s, i) \o CollapseSpaces(s, i + 1)

\* s.replace(/[^\w\s-]/g, '')
RECURSIVE StripSpecial(_, _)
StripSpecial(s, i) ==
    IF i > Len(s) THEN ""
    ELSE IF IsWord(Char(s, i)) \/ IsSpace(Char(s, i)) \/ Char(s, i) = "-"
         THEN Char(s, i) \o StripSpecial(s, i + 1)
         ELSE StripSpecial(s, i + 1)


RECURSIVE ParseDigits(_, _)
ParseDigits(s, acc) ==
    IF s = "" THEN acc
    ELSE ParseDigits(SubSeq(s, 2, Len(s)), acc * 10 + DigitValue[Char(s, 1)])

IsDigits(s) == Len(s) > 0 /\ \A i \in 1..Len(s) : IsDigit(Char(s, i))

\* parseInt of a string of decimal digits
ParseInt(s) == ParseDigits(s, 0)

RECURSIVE DigitsOf(_)
DigitsOf(n) ==
    IF n < 10 THEN Char(DigitChars, n + 1)
    ELSE DigitsOf(n \div 10) \o Char(DigitChars, (n % 10) + 1)

\* String(n) for a number held scaled; a fraction is written to at most
\* FractionDigits places (exact for every terminating decimal drawn here)
FractionDigits == 4

RECURSIVE FractionOf(_, _)
FractionOf(rest, places) ==
    IF rest = 0 \/ places = 0 THEN ""
    ELSE Char(DigitChars, ((rest * 10) \div Scale) + 1)
         \o FractionOf((rest * 10) % Scale, places - 1)

NumToString(n) ==
    IF n % Scale = 0 THEN DigitsOf(n \div Scale)
    ELSE DigitsOf(n \div Scale) \o "." \o FractionOf(n % Scale, FractionDigits)

\* String(value)
JsString(v) ==
    CASE v.t = "string" -> v.s
      [] v.t = "number" -> NumToString(v.n)
      [] v.t = "nan" -> "NaN"
      [] OTHER -> "undefined"

\* s.split(sep) for a one-character separator
RECURSIVE Split(_, _, _)
Split(s, sep, cur) ==
    IF s = "" THEN <<cur>>
    ELSE IF Char(s, 1) = sep
         THEN <<cur>> \o Split(SubSeq(s, 2, Len(s)), sep, "")
         ELSE Split(SubSeq(s, 2, Len(s)), sep, cur \o Char(s, 1))

RECURSIVE Pow10(_)
Pow10(k) == IF k = 0 THEN 1 ELSE 10 * Pow10(k - 1)

RECURSIVE DigitPrefix(_)
DigitPrefix(s) ==
    IF s # "" /\ IsDigit(Char(s, 1))
    THEN Char(s, 1) \o DigitPrefix(SubSeq(s, 2, Len(s)))
    ELSE ""

\* the value of the digits ip before and fp after the decimal point
Magnitude(ip, fp) ==
    (IF ip = "" THEN 0 ELSE ParseInt(ip) * Scale)
    + (IF fp = "" THEN 0 ELSE (ParseInt(fp) * Scale) \div Pow10(Len(fp)))

\* the digits that follow a decimal point at the head of rest
FractionPart(rest) ==
    IF rest # "" /\ Char(rest, 1) = "." THEN DigitPrefix(SubSeq(rest, 2, Len(rest))) ELSE ""

\* NaN when no digit is read
ParseDecimal(negative, ip, fp) ==
    IF ip = "" /\ fp = "" THEN NaN
    ELSE Num(IF negative THEN 0 - Magnitude(ip, fp) ELSE Magnitude(ip, fp))

\* s after the sign, ip its leading digits
ParseUnsigned(negative, s, ip) ==
    ParseDecimal(negative, ip, FractionPart(SubSeq(s, Len(ip) + 1, Len(s))))

ParseSigned(s) ==
    IF s # "" /\ Char(s, 1) \in {"-", "+"}
    THEN ParseUnsigned(Char(s, 1) = "-", SubSeq(s, 2, Len(s)),
                       DigitPrefix(SubSeq(s, 2, Len(s))))
    ELSE ParseUnsigned(FALSE, s, DigitPrefix(s))

\* parseFloat: leading whitespace, optional sign, digits, optional fraction
ParseFloat(str) == ParseSigned(TrimStart(str))

\* ------------------------------------------------------------------------
\* Objects and Maps: entries [k, v] in insertion order
\* ------------------------------------------------------------------------
EmptyObj == <<>>

Has(o, k) == \E i \in 1..Len(o) : o[i].k = k

IndexOfKey(o, k) == CHOOSE i \in 1..Len(o) : o[i].k = k

\* o[k]
Get(o, k) == IF Has(o, k) THEN o[IndexOfKey(o, k)].v ELSE Undefined

\* o[k] = v, Map.set(k, v): an existing key keeps its place
Set(o, k, v) ==
    IF Has(o, k)
    THEN [o EXCEPT ![IndexOfKey(o, k)] = [k |-> k, v |-> v]]
    ELSE Append(o, [k |-> k, v |-> v])

\* Map.delete(k)
Delete(o, k) ==
    IF Has(o, k)
    THEN SubSeq(o, 1, IndexOfKey(o, k) - 1) \o SubSeq(o, IndexOfKey(o, k) + 1, Len(o))
    ELSE o

\* ------------------------------------------------------------------------
\* Field extractors
\* ------------------------------------------------------------------------
\* first year of this century accepted as a plain number
MinYear == 2022

MaxYear == 2100

\* /\b(20\d{2})\b/ at position i of str
YearAt(str, i) ==
    /\ i + 3 <= Len(str)
    /\ SubSeq(str, i, i + 1) = "20"
    /\ IsDigit(Char(str, i + 2))
    /\ IsDigit(Char(str, i + 3))
    /\ (i = 1 \/ ~IsWord(Char(str, i - 1)))
    /\ (i + 3 = Len(str) \/ ~IsWord(Char(str, i + 4)))

\* new Date(str).getFullYear(): an ISO date yyyy-mm-dd gives its year; every other
\* string drawn by the model is one that no engine parses (Invalid Date)
DateYear(str) ==
    IF /\ Len(str) >= 10
       /\ IsDigits(SubSeq(str, 1, 4))
       /\ Char(str, 5) = "-"
       /\ IsDigits(SubSeq(str, 6, 7))
       /\ Char(str, 8) = "-"
       /\ IsDigits(SubSeq(str, 9, 10))
    THEN Whole(ParseInt(SubSeq(str, 1, 4)))
    ELSE Undefined

\* the index of the first match of /\b(20\d{2})\b/ in str
FirstYearAt(str) ==
    CHOOSE j \in 1..Len(str) : YearAt(str, j) /\ \A h \in 1..(j - 1) : ~YearAt(str, h)

\* the year read from str = String(value): the YYYY pattern, then the date
YearOfString(str) ==
    IF \E i \in 1..Len(str) : YearAt(str, i)
    THEN Whole(ParseInt(SubSeq(str, FirstYearAt(str), FirstYearAt(str) + 3)))
    ELSE DateYear(str)

extractYear(value) ==
    IF ~Truthy(value) THEN Undefined
    ELSE IF IsNum(value) /\ value.n >= MinYear * Scale /\ value.n <= MaxYear * Scale
    THEN Whole(value.n \div Scale)
    ELSE YearOfString(JsString(value))

\* str.replace(/[^\\d.-]/g, ''): the class holds a backslash, the letter d, a dot
\* and a hyphen, and every other character is removed
RECURSIVE KeepClass(_, _)
KeepClass(s, i) ==
    IF i > Len(s) THEN ""
    ELSE IF Char(s, i) \in {"\\", "d", ".", "-"}
         THEN Char(s, i) \o KeepClass(s, i + 1)
         ELSE KeepClass(s, i + 1)

\* ClockBody without the optional AM/PM marker of the pattern
ClockBodyWithMarker(str) == TrimEnd(str)

\* the part of str before \s*(?:AM|PM)?$ (case-insensitive)
ClockBody(str) ==
    IF Len(str) >= 2 /\ ToLowerCase(SubSeq(str, Len(str) - 1, Len(str))) \in {"am", "pm"}
    THEN TrimEnd(SubSeq(str, 1, Len(str) - 2))
    ELSE TrimEnd(str)

\* isNaN(num) ? 0 : num
ZeroIfNaN(num) == IF num = NaN THEN Whole(0) ELSE num

\* hours + (minutes / 60) + (seconds / 3600), the fields being strings of digits
ClockHours(fields) ==
    Num(ParseInt(fields[1]) * Scale
        + ParseInt(fields[2]) * (Scale \div MinutesPerHour)
        + (IF Len(fields) = 3 THEN ParseInt(fields[3]) ELSE 0))

\* every field of a split clock string is \d+
AllDigits(fields) == \A i \in 1..Len(fields) : IsDigits(fields[i])

\* the matches of extractNumber on str = String(value).trim(): excel holds the
\* fields of str without its AM/PM suffix, plain the fields of str
NumberOfString(str, excel, plain) ==
    IF Len(excel) \in {2, 3} /\ AllDigits(excel) THEN ClockHours(excel)
    ELSE IF Len(plain) = 3 /\ AllDigits(plain) THEN ClockHours(plain)
    ELSE IF Len(plain) = 2 /\ AllDigits(plain) THEN ClockHours(plain)
    ELSE ZeroIfNaN(ParseFloat(KeepClass(str, 1)))

NumberOf(str) == NumberOfString(str, Split(ClockBody(str), ":", ""), Split(str, ":", ""))

extractNumber(value) ==
    IF IsNum(value) THEN value
    ELSE IF ~Truthy(value) THEN Whole(0)
    ELSE NumberOf(Trim(JsString(value)))

\* normalizeCourseName: trim, lower-case, collapse whitespace, then drop every
\* character that is not a word character, whitespace or a hyphen
normalizeCourseName(name) ==
    IF ~Truthy(name) THEN ""
    ELSE StripSpecial(CollapseSpaces(ToLowerCase(Trim(JsString(name))), 1), 1)

\* ------------------------------------------------------------------------
\* Normalization layer
\* ------------------------------------------------------------------------
\* ValidationError.row is optional: NoRow stands for its absence
NoRow == 0

Diagnostic(file, row, field, message, severity) ==
    [file |-> file, row |-> row, field |-> field, message |-> message,
     severity |-> severity]

\* value !== null && value !== undefined && String(value).trim() !== ''
NonBlank(value) == value # Undefined /\ Trim(JsString(value)) # ""

\* value !== null && value !== undefined && value !== ''
NonEmpty(value) == value # Undefined /\ value # Str("")

\* In each predicate below, lower is bound to key.toLowerCase().trim().
\* the course-name column of a Legacy or Modern row
IsCourseNameKey(key) ==
    \E lower \in {Trim(ToLowerCase(key))} :
        \/ lower \in {"course name", "coursename", "name", "course", "title"}
        \/ (Includes(lower, "course") /\ Includes(lower, "name"))

\* the time column of a Legacy or Modern row
IsTotalTimeKey(key) ==
    \E lower \in {Trim(ToLowerCase(key))} :
        \/ lower \in {"time spent", "timespent", "time", "hours", "total time", "totaltime"}
        \/ (Includes(lower, "time") /\ Includes(lower, "spent"))
        \/ (Includes(lower, "total") /\ (Includes(lower, "time") \/ Includes(lower, "hour")))

IsYearKey(key) ==
    \E lower \in {Trim(ToLowerCase(key))} : lower = "year" \/ Includes(lower, "year")

IsDateKey(key) ==
    \E lower \in {Trim(ToLowerCase(key))} :
        Includes(lower, "date") \/ Includes(lower, "completed") \/ Includes(lower, "reporting")

\* the course-name column of a Time Spent row
IsEntryCourseKey(key) ==
    \E lower \in {Trim(ToLowerCase(key))} :
        \/ Includes(lower, "course") \/ Includes(lower, "name") \/ Includes(lower, "title")
        \/ lower \in {"name", "course", "title"}

IsCategoryKey(key) ==
    \E lower \in {Trim(ToLowerCase(key))} : Includes(lower, "category") \/ Includes(lower, "type")

IsEntryTimeKey(key) ==
    \E lower \in {Trim(ToLowerCase(key))} : Includes(lower, "time") \/ Includes(lower, "hour")

IsUserKey(key) ==
    \E lower \in {Trim(ToLowerCase(key))} :
        Includes(lower, "user") \/ Includes(lower, "member") \/ Includes(lower, "employee")

\* the Reporting column looked for in a Legacy or a Modern record
IsReportingKey(key, fileType) ==
    \E lower \in {Trim(ToLowerCase(key))} :
        IF fileType = "Legacy"
        THEN Includes(lower, "reporting") /\ (Includes(lower, "(l)") \/ ~Includes(lower, "(m)"))
        ELSE Includes(lower, "reporting") /\ (Includes(lower, "(m)") \/ ~Includes(lower, "(l)"))

IsAnyReportingKey(key) == Includes(ToLowerCase(key), "reporting")

\* the predicate a column is looked up with
KeyMatches(field, key) ==
    CASE field = "courseName" -> IsCourseNameKey(key)
      [] field = "totalTime" -> IsTotalTimeKey(key)
      [] field = "year" -> IsYearKey(key)
      [] field = "entryCourse" -> IsEntryCourseKey(key)
      [] field = "category" -> IsCategoryKey(key)
      [] field = "entryTime" -> IsEntryTimeKey(key)
      [] field = "user" -> IsUserKey(key)
      [] field = "reportingLegacy" -> IsReportingKey(key, "Legacy")
      [] field = "reportingModern" -> IsReportingKey(key, "Modern")
      [] OTHER -> IsAnyReportingKey(key)

\* Object.keys(o).find(key => ...): the first key the predicate of the field
\* accepts; "" stands for undefined (both are falsy)
RECURSIVE FindKey(_, _, _)
FindKey(o, field, i) ==
    IF i > Len(o) THEN ""
    ELSE IF KeyMatches(field, o[i].k) THEN o[i].k
    ELSE FindKey(o, field, i + 1)

\* if (yearKey) { yearValue = extractYear(row[yearKey]); }
YearOfColumn(row, yearKey) ==
    IF yearKey # "" THEN extractYear(Get(row, yearKey)) ELSE Undefined

\* for (const dateKey of dateKeys) { yearValue = extractYear(row[dateKey]); if (yearValue) break; }
RECURSIVE FirstDateYear(_, _)
FirstDateYear(row, i) ==
    IF i > Len(row) THEN Undefined
    ELSE IF IsDateKey(row[i].k)
         THEN Or(extractYear(row[i].v), FirstDateYear(row, i + 1))
         ELSE FirstDateYear(row, i + 1)

\* if (!yearValue) { ... the date columns ... }
YearOrDates(row, yearValue) ==
    IF Truthy(yearValue) THEN yearValue ELSE FirstDateYear(row, 1)

\* the year of a Legacy or Modern row: the year column, else the date columns
RowYear(row) == YearOrDates(row, YearOfColumn(row, FindKey(row, "year", 1)))

\* Object.keys(row).forEach(key => { record[key] = row[key]; })
RECURSIVE CopyColumns(_, _, _)
CopyColumns(record, row, i) ==
    IF i > Len(row) THEN record
    ELSE CopyColumns(Set(record, row[i].k, row[i].v), row, i + 1)

\* the course name a row yields: '' when the column is absent or blank
RowCourseName(row, courseNameKey) ==
    IF courseNameKey # "" /\ NonBlank(Get(row, courseNameKey))
    THEN Trim(JsString(Get(row, courseNameKey)))
    ELSE ""

\* the total time of a Legacy row: 0 when the column is absent or empty
RowTotalTime(row, timeKey) ==
    IF timeKey # "" /\ NonEmpty(Get(row, timeKey))
    THEN extractNumber(Get(row, timeKey))
    ELSE Whole(0)

\* if (yearValue) { record.year = yearValue; }
WithYear(record, yearValue) ==
    IF Truthy(yearValue) THEN Set(record, "year", yearValue) ELSE record

\* LegacyRecord in which the zero-time warning excludes the row
LegacyRecordDroppingZero(acc, row, i, courseName, totalTime, yearValue) ==
    IF courseName = ""
    THEN [data |-> acc.data,
          errors |-> Append(acc.errors,
              Diagnostic("Legacy Course Data", i + 1, "Course Name",
                         "Missing or empty course name", "error"))]
    ELSE IF totalTime = Whole(0)
    THEN [data |-> acc.data,
          errors |-> Append(acc.errors,
              Diagnostic("Legacy Course Data", i + 1, "Total Time",
                         "Course \"" \o courseName \o "\" has zero or missing total time",
                         "warning"))]
    ELSE [data |-> Append(acc.data,
              CopyColumns(WithYear(<<[k |-> "courseName", v |-> Str(courseName)],
                                     [k |-> "totalTime", v |-> totalTime]>>, yearValue),
                          row, 1)),
          errors |-> acc.errors]

\* the rest of an iteration of normalizeLegacyData's loop, the fields being read
LegacyRecord(acc, row, i, courseName, totalTime, yearValue) ==
    IF courseName = ""
    THEN [data |-> acc.data,
          errors |-> Append(acc.errors,
              Diagnostic("Legacy Course Data", i + 1, "Course Name",
                         "Missing or empty course name", "error"))]
    ELSE [data |-> Append(acc.data,
              CopyColumns(WithYear(<<[k |-> "courseName", v |-> Str(courseName)],
                                     [k |-> "totalTime", v |-> totalTime]>>, yearValue),
                          row, 1)),
          errors |-> IF totalTime = Whole(0)
                     THEN Append(acc.errors,
                         Diagnostic("Legacy Course Data", i + 1, "Total Time",
                                    "Course \"" \o courseName
                                        \o "\" has zero or missing total time",
                                    "warning"))
                     ELSE acc.errors]

\* one iteration of normalizeLegacyData's loop, on the row at position i (index i - 1)
LegacyRow(acc, row, i) ==
    LegacyRecord(acc, row, i, RowCourseName(row, FindKey(row, "courseName", 1)),
                 RowTotalTime(row, FindKey(row, "totalTime", 1)), RowYear(row))

\* LegacyRows that gives up the rest of the file at the first row in error
RECURSIVE LegacyRowsStopping(_, _, _)
LegacyRowsStopping(acc, rawData, i) ==
    IF i > Len(rawData) \/ Len(acc.data) + Len(acc.errors) < i - 1 THEN acc
    ELSE IF \E e \in 1..Len(acc.errors) : acc.errors[e].severity = "error" THEN acc
    ELSE LegacyRowsStopping(LegacyRow(acc, rawData[i], i), rawData, i + 1)

RECURSIVE LegacyRows(_, _, _)
LegacyRows(acc, rawData, i) ==
    IF i > Len(rawData) THEN acc
    ELSE LegacyRows(LegacyRow(acc, rawData[i], i), rawData, i + 1)

normalizeLegacyData(rawData) == LegacyRows([data |-> <<>>, errors |-> <<>>], rawData, 1)

\* if (timeKey) { ... record.totalTime = extractNumber(value); }
WithTotalTime(record, row, timeKey) ==
    IF timeKey # "" /\ NonEmpty(Get(row, timeKey))
    THEN Set(record, "totalTime", extractNumber(Get(row, timeKey)))
    ELSE record

\* the rest of an iteration of normalizeModernData's loop, the fields being read
ModernRecord(acc, row, i, courseName, timeKey, yearValue) ==
    IF courseName = ""
    THEN [data |-> acc.data,
          errors |-> Append(acc.errors,
              Diagnostic("Modern Course Data", i + 1, "Course Name",
                         "Missing or empty course name", "error"))]
    ELSE [data |-> Append(acc.data,
              CopyColumns(WithYear(WithTotalTime(<<[k |-> "courseName",
                                                   v |-> Str(courseName)]>>,
                                                 row, timeKey), yearValue),
                          row, 1)),
          errors |-> acc.errors]

\* one iteration of normalizeModernData's loop
ModernRow(acc, row, i) ==
    ModernRecord(acc, row, i, RowCourseName(row, FindKey(row, "courseName", 1)),
                 FindKey(row, "totalTime", 1), RowYear(row))

RECURSIVE ModernRows(_, _, _)
ModernRows(acc, rawData, i) ==
    IF i > Len(rawData) THEN acc
    ELSE ModernRows(ModernRow(acc, rawData[i], i), rawData, i + 1)

normalizeModernData(rawData) == ModernRows([data |-> <<>>, errors |-> <<>>], rawData, 1)

\* Object.keys(row).join(', ')
RECURSIVE JoinKeys(_, _)
JoinKeys(row, i) ==
    IF i > Len(row) THEN ""
    ELSE IF i = Len(row) THEN row[i].k
    ELSE row[i].k \o ", " \o JoinKeys(row, i + 1)

\* the other columns of a Time Spent row, copied after the recognized ones
RECURSIVE CopyOtherColumns(_, _, _, _)
CopyOtherColumns(record, row, recognized, i) ==
    IF i > Len(row) THEN record
    ELSE IF row[i].k \in recognized
         THEN CopyOtherColumns(record, row, recognized, i + 1)
         ELSE CopyOtherColumns(Set(record, row[i].k, row[i].v), row, recognized, i + 1)

\* only the first MaxNameWarnings rows without a course name are reported
MaxNameWarnings == 5

\* if (key) { ... record[field] = String(value).trim(); }
WithTrimmed(record, field, row, key) ==
    IF key # "" /\ NonBlank(Get(row, key))
    THEN Set(record, field, Str(Trim(JsString(Get(row, key)))))
    ELSE record

\* record.time = timeValue; record.hours = timeValue;
WithTimeValue(record, timeValue) == Set(Set(record, "time", timeValue), "hours", timeValue)

\* if (timeKey) { ... const timeValue = extractNumber(value); ... }
WithTime(record, row, timeKey) ==
    IF timeKey # "" /\ NonEmpty(Get(row, timeKey))
    THEN WithTimeValue(record, extractNumber(Get(row, timeKey)))
    ELSE record

\* a count that never reaches the cap: every row without a name is reported
NameWarningsForgotten(errors) == 0

\* errors.filter(e => e.field === 'Course Name').length
NameWarnings(errors) ==
    Cardinality({e \in 1..Len(errors) : errors[e].field = "Course Name"})

\* the rest of an iteration of normalizeTimeSpentData's loop, the columns being found
TimeSpentRecord(acc, row, i, courseNameKey, categoryKey, timeKey, userKey) ==
    IF RowCourseName(row, courseNameKey) = ""
    THEN [data |-> acc.data,
          errors |-> IF NameWarnings(acc.errors) < MaxNameWarnings
                     THEN Append(acc.errors,
                         Diagnostic("Time Spent Category Data", i + 1, "Course Name",
                             "Missing or empty course name. Available columns: "
                                 \o JoinKeys(row, 1),
                             "warning"))
                     ELSE acc.errors]
    ELSE [data |-> Append(acc.data,
              CopyOtherColumns(
                  WithTrimmed(
                      WithTime(
                          WithTrimmed(<<[k |-> "courseName",
                                         v |-> Str(RowCourseName(row, courseNameKey))]>>,
                                      "category", row, categoryKey),
                          row, timeKey),
                      "user", row, userKey),
                  row, {courseNameKey, categoryKey, timeKey, userKey}, 1)),
          errors |-> acc.errors]

\* one iteration of normalizeTimeSpentData's loop
TimeSpentRow(acc, row, i) ==
    TimeSpentRecord(acc, row, i, FindKey(row, "entryCourse", 1), FindKey(row, "category", 1),
                    FindKey(row, "entryTime", 1), FindKey(row, "user", 1))

RECURSIVE TimeSpentRows(_, _, _)
TimeSpentRows(acc, rawData, i) ==
    IF i > Len(rawData) THEN acc
    ELSE TimeSpentRows(TimeSpentRow(acc, rawData[i], i), rawData, i + 1)

normalizeTimeSpentData(rawData) ==
    TimeSpentRows([data |-> <<>>, errors |-> <<>>], rawData, 1)

\* ------------------------------------------------------------------------
\* Merge and join engine
\* ------------------------------------------------------------------------
\* a reference to the record at position ref of its array, with the record
Ref(ref, rec) == [t |-> "object", ref |-> ref, rec |-> rec]

\* a + b on numbers
Add(a, b) ==
    IF IsNum(a) /\ IsNum(b) THEN Num(a.n + b.n)
    ELSE IF IsStr(a) \/ IsStr(b) THEN Str(JsString(a) \o JsString(b))
    ELSE NaN

\* a Map, as a value
MapOf(entries) == [t |-> "map", entries |-> entries]

\* an array, as a value
ArrayOf(items) == [t |-> "array", items |-> items]

\* extractReportingYear without its fallback to any Reporting column
ReportingYearScoped(record, reportingKey, anyReportingKey) ==
    IF reportingKey # "" /\ Truthy(Get(record, reportingKey))
    THEN extractYear(Get(record, reportingKey))
    ELSE Undefined

\* the two lookups of extractReportingYear being done
ReportingYearOf(record, reportingKey, anyReportingKey) ==
    IF reportingKey # "" /\ Truthy(Get(record, reportingKey))
    THEN extractYear(Get(record, reportingKey))
    ELSE IF anyReportingKey # "" /\ Truthy(Get(record, anyReportingKey))
    THEN extractYear(Get(record, anyReportingKey))
    ELSE Undefined

extractReportingYear(record, fileType) ==
    ReportingYearOf(record, FindKey(record, "reporting" \o fileType, 1),
                    FindKey(record, "reporting", 1))

\* createCourseKey over the name as written, not normalized
RawCourseKey(courseName, reportingYear) ==
    JsString(courseName) \o "__" \o JsString(reportingYear)

\* `${normalizeCourseName(courseName)}__${reportingYear}`
createCourseKey(courseName, reportingYear) ==
    normalizeCourseName(courseName) \o "__" \o JsString(reportingYear)

\* fieldName.replace(/^\[LCT\]\s*/i, '')
StripLctPrefix(fieldName) ==
    IF Len(fieldName) >= 5 /\ ToLowerCase(SubSeq(fieldName, 1, 5)) = "[lct]"
    THEN TrimStart(SubSeq(fieldName, 6, Len(fieldName)))
    ELSE fieldName

\* fieldName.replace(/\s*\([ML]\)$/i, '')
StripSourceSuffix(fieldName) ==
    IF /\ Len(fieldName) >= 3
       /\ ToLowerCase(SubSeq(fieldName, Len(fieldName) - 2, Len(fieldName))) \in {"(m)", "(l)"}
    THEN TrimEnd(SubSeq(fieldName, 1, Len(fieldName) - 3))
    ELSE fieldName

cleanFieldName(fieldName) == Trim(StripSourceSuffix(StripLctPrefix(fieldName)))

RECURSIVE CleanEntries(_, _, _)
CleanEntries(cleaned, metadata, i) ==
    IF i > Len(metadata) THEN cleaned
    ELSE CleanEntries(Set(cleaned, cleanFieldName(metadata[i].k), metadata[i].v),
                      metadata, i + 1)

cleanMetadata(metadata) == CleanEntries(EmptyObj, metadata, 1)

\* default reporting years of the two base files
LegacyDefaultYear == 2024

ModernDefaultYear == 2026

\* new Date().getFullYear()
CurrentYear == 2026

ReportingWarning(file, courseName, i) ==
    Diagnostic(file, i + 1, "Reporting",
               "Course \"" \o JsString(courseName) \o "\" missing Reporting date/year",
               "warning")

\* cleanedMetadata['Status'] || cleanedMetadata['status'] || 'Completed'
StatusOf(cleanedMetadata) ==
    Or(Or(Get(cleanedMetadata, "Status"), Get(cleanedMetadata, "status")), Str("Completed"))

\* the instance made of a Legacy record
LegacyCourse(legacy, i, year, cleanedMetadata) ==
    [courseName |-> Get(legacy, "courseName"),
     normalizedCourseName |-> normalizeCourseName(Get(legacy, "courseName")),
     reportingYear |-> year,
     totalTime |-> Get(legacy, "totalTime"),
     year |-> year,
     status |-> StatusOf(cleanedMetadata),
     classification |-> "Legacy",
     categoryBreakdown |-> Undefined,
     metadata |-> cleanedMetadata,
     rawRecords |-> [legacy |-> Ref(i, legacy), modern |-> Undefined,
                     timeSpent |-> Undefined]]

\* courseMap.set(courseKey, unified): inserted unconditionally
LegacyInsert(st, legacy, i, year, cleanedMetadata) ==
    [st EXCEPT !.courseMap = Set(@, createCourseKey(Get(legacy, "courseName"), year),
                                 LegacyCourse(legacy, i, year, cleanedMetadata))]

\* the warning of a record without a Reporting year
WithReportingWarning(st, file, courseName, i, reportingYear) ==
    IF Truthy(reportingYear) THEN st
    ELSE [st EXCEPT !.errors = Append(@, ReportingWarning(file, courseName, i))]

\* a Legacy record whose Reporting year has been read
LegacyRecordStep(st, legacy, i, reportingYear) ==
    LegacyInsert(WithReportingWarning(st, "Legacy Course Data", Get(legacy, "courseName"),
                                      i, reportingYear),
                 legacy, i,
                 Or(Or(reportingYear, Get(legacy, "year")), Whole(LegacyDefaultYear)),
                 cleanMetadata(legacy))

\* Step 1, one Legacy record (position i, index i - 1)
LegacyStep(st, legacyData, i) ==
    LegacyRecordStep(st, legacyData[i], i, extractReportingYear(legacyData[i], "Legacy"))

\* the instance made of a Modern record
ModernCourse(modern, i, year, cleanedMetadata) ==
    [courseName |-> Get(modern, "courseName"),
     normalizedCourseName |-> normalizeCourseName(Get(modern, "courseName")),
     reportingYear |-> year,
     totalTime |-> Or(Get(modern, "totalTime"), Whole(0)),
     year |-> year,
     status |-> StatusOf(cleanedMetadata),
     classification |-> "Modern",
     categoryBreakdown |-> Undefined,
     metadata |-> cleanedMetadata,
     rawRecords |-> [legacy |-> Undefined, modern |-> Ref(i, modern),
                     timeSpent |-> Undefined]]

\* ModernInsert without the return: the Modern record replaces the entry of its key
ModernInsertOverwriting(st, modern, i, year, courseKey) ==
    IF Has(st.courseMap, courseKey)
    THEN [st EXCEPT !.errors = Append(@,
             Diagnostic("Modern Course Data", NoRow, "Course Name",
                        "Duplicate course instance found: \""
                            \o JsString(Get(modern, "courseName"))
                            \o "\" for year " \o JsString(year),
                        "warning")),
                    !.courseMap = Set(@, courseKey,
                                      ModernCourse(modern, i, year, cleanMetadata(modern)))]
    ELSE [st EXCEPT !.courseMap = Set(@, courseKey,
                                      ModernCourse(modern, i, year, cleanMetadata(modern)))]

\* if (courseMap.has(courseKey)) { warning; return; } ... courseMap.set(courseKey, unified)
ModernInsert(st, modern, i, year, courseKey) ==
    IF Has(st.courseMap, courseKey)
    THEN [st EXCEPT !.errors = Append(@,
             Diagnostic("Modern Course Data", NoRow, "Course Name",
                        "Duplicate course instance found: \""
                            \o JsString(Get(modern, "courseName"))
                            \o "\" for year " \o JsString(year),
                        "warning"))]
    ELSE [st EXCEPT !.courseMap = Set(@, courseKey,
                                      ModernCourse(modern, i, year, cleanMetadata(modern)))]

\* a Modern record whose year is known
ModernKeyStep(st, modern, i, year) ==
    ModernInsert(st, modern, i, year, createCourseKey(Get(modern, "courseName"), year))

\* a Modern record whose Reporting year has been read
ModernRecordStep(st, modern, i, reportingYear) ==
    ModernKeyStep(WithReportingWarning(st, "Modern Course Data", Get(modern, "courseName"),
                                       i, reportingYear),
                  modern, i,
                  Or(Or(reportingYear, Get(modern, "year")), Whole(ModernDefaultYear)))

\* Step 2, one Modern record: discarded with a warning when its key is taken
ModernStep(st, modernData, i) ==
    ModernRecordStep(st, modernData[i], i, extractReportingYear(modernData[i], "Modern"))

\* Step 3, one time entry: appended to the group of its normalized name
GroupAppend(st, normalized, ref) ==
    [st EXCEPT !.timeSpentByCourse =
        Set(@, normalized,
            Append(IF Has(@, normalized) THEN Get(@, normalized) ELSE <<>>, ref))]

\* GroupStep keyed by the name as written, not normalized
GroupByRawName(st, timeSpentData, i) ==
    GroupAppend(st, JsString(Get(timeSpentData[i], "courseName")), Ref(i, timeSpentData[i]))

GroupStep(st, timeSpentData, i) ==
    GroupAppend(st, normalizeCourseName(Get(timeSpentData[i], "courseName")),
                Ref(i, timeSpentData[i]))

\* entry.time || entry.hours || 0
EntryHours(entry) == Or(Or(Get(entry, "time"), Get(entry, "hours")), Whole(0))

\* entry.category || 'Uncategorized'
EntryCategory(entry) == JsString(Or(Get(entry, "category"), Str("Uncategorized")))

\* AddHours that replaces the hours of the category instead of adding to them
SetHours(categoryMap, category, hours) == Set(categoryMap, category, hours)

\* categoryMap.set(category, (categoryMap.get(category) || 0) + hours)
AddHours(categoryMap, category, hours) ==
    Set(categoryMap, category, Add(Or(Get(categoryMap, category), Whole(0)), hours))

\* the category breakdown of a list of entries
RECURSIVE CategoryMap(_, _, _)
CategoryMap(categoryMap, entries, i) ==
    IF i > Len(entries) THEN categoryMap
    ELSE CategoryMap(AddHours(categoryMap, EntryCategory(entries[i].rec),
                              EntryHours(entries[i].rec)),
                     entries, i + 1)

\* entries.reduce((sum, entry) => sum + (entry.time || entry.hours || 0), 0)
RECURSIVE SumHours(_, _, _)
SumHours(sum, entries, i) ==
    IF i > Len(entries) THEN sum
    ELSE SumHours(Add(sum, EntryHours(entries[i].rec)), entries, i + 1)

\* AttachStep without timeSpentByCourse.delete: the group stays in the pool
AttachKeepingGroup(st, j) ==
    IF Has(st.timeSpentByCourse, st.courseMap[j].v.normalizedCourseName)
    THEN [st EXCEPT
             !.courseMap[j].v.categoryBreakdown =
                 MapOf(CategoryMap(EmptyObj,
                     Get(st.timeSpentByCourse, st.courseMap[j].v.normalizedCourseName), 1)),
             !.courseMap[j].v.rawRecords.timeSpent =
                 ArrayOf(Get(st.timeSpentByCourse, st.courseMap[j].v.normalizedCourseName))]
    ELSE st

\* AttachStep that also recomputes totalTime from the entries
AttachRecomputingTime(st, j) ==
    IF Has(st.timeSpentByCourse, st.courseMap[j].v.normalizedCourseName)
    THEN [st EXCEPT
             !.courseMap[j].v.categoryBreakdown =
                 MapOf(CategoryMap(EmptyObj,
                     Get(st.timeSpentByCourse, st.courseMap[j].v.normalizedCourseName), 1)),
             !.courseMap[j].v.rawRecords.timeSpent =
                 ArrayOf(Get(st.timeSpentByCourse, st.courseMap[j].v.normalizedCourseName)),
             !.courseMap[j].v.totalTime =
                 SumHours(Whole(0),
                     Get(st.timeSpentByCourse, st.courseMap[j].v.normalizedCourseName), 1),
             !.timeSpentByCourse = Delete(@, st.courseMap[j].v.normalizedCourseName)]
    ELSE st

\* Step 4, the course at position j of the map: given the group of its name, if any
\* AttachStep for the Legacy instances alone: the group of a Modern instance stays
AttachLegacyOnly(st, j) ==
    IF /\ st.courseMap[j].v.classification = "Legacy"
       /\ Has(st.timeSpentByCourse, st.courseMap[j].v.normalizedCourseName)
    THEN [st EXCEPT
             !.courseMap[j].v.categoryBreakdown =
                 MapOf(CategoryMap(EmptyObj,
                     Get(st.timeSpentByCourse, st.courseMap[j].v.normalizedCourseName), 1)),
             !.courseMap[j].v.rawRecords.timeSpent =
                 ArrayOf(Get(st.timeSpentByCourse, st.courseMap[j].v.normalizedCourseName)),
             !.timeSpentByCourse = Delete(@, st.courseMap[j].v.normalizedCourseName)]
    ELSE st

AttachStep(st, j) ==
    IF Has(st.timeSpentByCourse, st.courseMap[j].v.normalizedCourseName)
    THEN [st EXCEPT
             !.courseMap[j].v.categoryBreakdown =
                 MapOf(CategoryMap(EmptyObj,
                     Get(st.timeSpentByCourse, st.courseMap[j].v.normalizedCourseName), 1)),
             !.courseMap[j].v.rawRecords.timeSpent =
                 ArrayOf(Get(st.timeSpentByCourse, st.courseMap[j].v.normalizedCourseName)),
             !.timeSpentByCourse = Delete(@, st.courseMap[j].v.normalizedCourseName)]
    ELSE st

\* entries[0]?.courseName || ''
OriginalName(entries) ==
    IF Len(entries) > 0 THEN Or(Get(entries[1].rec, "courseName"), Str("")) ELSE Str("")

\* InProgressCourse whose totalTime is the hours of the first entry only
InProgressFirstEntry(normalizedName, entries, currentYear) ==
    [courseName |-> OriginalName(entries),
     normalizedCourseName |-> normalizedName,
     reportingYear |-> currentYear,
     totalTime |-> EntryHours(entries[1].rec),
     year |-> currentYear,
     status |-> Str("In Progress"),
     classification |-> "In Progress",
     categoryBreakdown |-> MapOf(CategoryMap(EmptyObj, entries, 1)),
     metadata |-> EmptyObj,
     rawRecords |-> [legacy |-> Undefined, modern |-> Undefined,
                     timeSpent |-> ArrayOf(entries)]]

\* the instance synthesized from a group of entries
InProgressCourse(normalizedName, entries, currentYear) ==
    [courseName |-> OriginalName(entries),
     normalizedCourseName |-> normalizedName,
     reportingYear |-> currentYear,
     totalTime |-> SumHours(Whole(0), entries, 1),
     year |-> currentYear,
     status |-> Str("In Progress"),
     classification |-> "In Progress",
     categoryBreakdown |-> MapOf(CategoryMap(EmptyObj, entries, 1)),
     metadata |-> EmptyObj,
     rawRecords |-> [legacy |-> Undefined, modern |-> Undefined,
                     timeSpent |-> ArrayOf(entries)]]

\* Step 5, the remaining group at position j: a synthesized In Progress course
SynthStep(st, j) ==
    [st EXCEPT !.courseMap =
        Set(@, createCourseKey(OriginalName(st.timeSpentByCourse[j].v), Whole(CurrentYear)),
            InProgressCourse(st.timeSpentByCourse[j].k, st.timeSpentByCourse[j].v,
                             Whole(CurrentYear)))]

\* the state of a call of mergeAndClassifyData before its first step
MergeStart == [errors |-> <<>>, courseMap |-> EmptyObj, timeSpentByCourse |-> EmptyObj]

RECURSIVE LegacyLoop(_, _, _)
LegacyLoop(st, legacyData, i) ==
    IF i > Len(legacyData) THEN st
    ELSE LegacyLoop(LegacyStep(st, legacyData, i), legacyData, i + 1)

RECURSIVE ModernLoop(_, _, _)
ModernLoop(st, modernData, i) ==
    IF i > Len(modernData) THEN st
    ELSE ModernLoop(ModernStep(st, modernData, i), modernData, i + 1)

RECURSIVE GroupLoop(_, _, _)
GroupLoop(st, timeSpentData, i) ==
    IF i > Len(timeSpentData) THEN st
    ELSE GroupLoop(GroupStep(st, timeSpentData, i), timeSpentData, i + 1)

\* courseMap.forEach: the map is not resized during the loop
RECURSIVE AttachLoop(_, _)
AttachLoop(st, j) ==
    IF j > Len(st.courseMap) THEN st ELSE AttachLoop(AttachStep(st, j), j + 1)

\* timeSpentByCourse.forEach: the pool is left as it is during the loop
RECURSIVE SynthLoop(_, _)
SynthLoop(st, j) ==
    IF j > Len(st.timeSpentByCourse) THEN st ELSE SynthLoop(SynthStep(st, j), j + 1)

\* Array.from(courseMap.values())
Values(m) == [i \in 1..Len(m) |-> m[i].v]

\* the result of the five steps
MergeResult(st) == [unified |-> Values(st.courseMap), errors |-> st.errors]

mergeAndClassifyData(legacyData, modernData, timeSpentData) ==
    MergeResult(SynthLoop(AttachLoop(GroupLoop(ModernLoop(LegacyLoop(MergeStart,
        legacyData, 1), modernData, 1), timeSpentData, 1), 1), 1))

\* ------------------------------------------------------------------------
\* Aggregation engine
\* ------------------------------------------------------------------------
RECURSIVE Gcd(_, _)
Gcd(a, b) == IF b = 0 THEN a ELSE Gcd(b, a % b)

\* the fraction n / d of scaled units, g being a common divisor of n and d
Fraction(n, d, g) == [t |-> "fraction", n |-> n \div g, d |-> d \div g]

Abs(n) == IF n < 0 THEN 0 - n ELSE n

\* a / b for a divisor b > 0 (every divisor of computeAnalytics is a count of at
\* least one): a number when the quotient is held exactly, else the fraction
\* of scaled units in lowest terms
Div(a, b) ==
    IF ~(IsNum(a) /\ IsNum(b)) \/ b.n <= 0 THEN NaN
    ELSE IF (a.n * Scale) % b.n = 0 THEN Num((a.n * Scale) \div b.n)
    ELSE Fraction(a.n * Scale, b.n, Gcd(Abs(a.n * Scale), b.n))

\* map.get(k) || d, for a map of objects
GetOr(o, k, d) == IF Has(o, k) THEN Get(o, k) ELSE d

\* the place of a keyed entry e among sorted ones: after every entry whose key
\* is not greater (Array.prototype.sort is stable)
RECURSIVE InsertSorted(_, _, _)
InsertSorted(sorted, e, i) ==
    IF i > Len(sorted) THEN Append(sorted, e)
    ELSE IF sorted[i].key > e.key
         THEN SubSeq(sorted, 1, i - 1) \o <<e>> \o SubSeq(sorted, i, Len(sorted))
         ELSE InsertSorted(sorted, e, i + 1)

RECURSIVE SortByKey(_, _, _)
SortByKey(sorted, entries, i) ==
    IF i > Len(entries) THEN sorted
    ELSE SortByKey(InsertSorted(sorted, entries[i], 1), entries, i + 1)

Items(entries) == [i \in 1..Len(entries) |-> entries[i].item]

\* the number a comparator subtracts; every year and total the model draws is a number
SortKey(v) == IF IsNum(v) THEN v.n ELSE 0

\* courses.reduce((sum, c) => sum + c.totalTime, 0)
RECURSIVE TotalTime(_, _, _)
TotalTime(sum, courses, i) ==
    IF i > Len(courses) THEN sum
    ELSE TotalTime(Add(sum, courses[i].totalTime), courses, i + 1)

\* courses.filter(c => c.classification === classification).length
CountOf(courses, classification) ==
    Whole(Cardinality({i \in 1..Len(courses) : courses[i].classification = classification}))

\* a summary whose completed courses are those of the Modern file alone
SummaryOfModern(courses, totalTimeSpent) ==
    [totalCourses |-> Whole(Len(courses)),
     totalTimeSpent |-> totalTimeSpent,
     completedCourses |-> CountOf(courses, "Modern"),
     inProgressCourses |-> CountOf(courses, "In Progress"),
     averageTimePerCourse |->
         IF Len(courses) > 0 THEN Div(totalTimeSpent, Whole(Len(courses))) ELSE Whole(0),
     legacyCourses |-> CountOf(courses, "Legacy"),
     modernCourses |-> CountOf(courses, "Modern")]

Summary(courses, totalTimeSpent) ==
    [totalCourses |-> Whole(Len(courses)),
     totalTimeSpent |-> totalTimeSpent,
     completedCourses |->
         Whole(Cardinality({i \in 1..Len(courses) :
                               courses[i].classification # "In Progress"})),
     inProgressCourses |-> CountOf(courses, "In Progress"),
     averageTimePerCourse |->
         IF Len(courses) > 0 THEN Div(totalTimeSpent, Whole(Len(courses))) ELSE Whole(0),
     legacyCourses |-> CountOf(courses, "Legacy"),
     modernCourses |-> CountOf(courses, "Modern")]

\* course.year || new Date().getFullYear()
CourseYear(course) == Or(course.year, Whole(CurrentYear))

\* existing.count++; existing.totalTime += course.totalTime;
Counted(existing, course) ==
    [count |-> Add(existing.count, Whole(1)),
     totalTime |-> Add(existing.totalTime, course.totalTime)]

NoCount == [count |-> Whole(0), totalTime |-> Whole(0)]

CountInto(map, key, course) == Set(map, key, Counted(GetOr(map, key, NoCount), course))

RECURSIVE YearMap(_, _, _)
YearMap(yearMap, courses, i) ==
    IF i > Len(courses) THEN yearMap
    ELSE YearMap(CountInto(yearMap, CourseYear(courses[i]), courses[i]), courses, i + 1)

\* the years in the order the map met them
ByYearAsMet(yearMap) ==
    [i \in 1..Len(yearMap) |->
        [year |-> yearMap[i].k,
         count |-> yearMap[i].v.count,
         totalTime |-> yearMap[i].v.totalTime,
         avgTime |-> Div(yearMap[i].v.totalTime, yearMap[i].v.count)]]

ByYear(yearMap) ==
    Items(SortByKey(<<>>,
        [i \in 1..Len(yearMap) |->
            [key |-> SortKey(yearMap[i].k),
             item |-> [year |-> yearMap[i].k,
                       count |-> yearMap[i].v.count,
                       totalTime |-> yearMap[i].v.totalTime,
                       avgTime |-> Div(yearMap[i].v.totalTime, yearMap[i].v.count)]]], 1))

RECURSIVE StatusMap(_, _, _)
StatusMap(statusMap, courses, i) ==
    IF i > Len(courses) THEN statusMap
    ELSE StatusMap(CountInto(statusMap, courses[i].status, courses[i]), courses, i + 1)

ByStatus(statusMap) ==
    [i \in 1..Len(statusMap) |->
        [status |-> statusMap[i].k,
         count |-> statusMap[i].v.count,
         totalTime |-> statusMap[i].v.totalTime]]

NoCategory == [totalTime |-> Whole(0), courses |-> {}]

\* existing.totalTime += time; existing.courses.add(course.normalizedCourseName);
CategoryInto(categoryMap, category, time, name) ==
    Set(categoryMap, category,
        [totalTime |-> Add(GetOr(categoryMap, category, NoCategory).totalTime, time),
         courses |-> GetOr(categoryMap, category, NoCategory).courses \cup {name}])

\* course.categoryBreakdown.forEach((time, category) => ...)
RECURSIVE BreakdownInto(_, _, _, _)
BreakdownInto(categoryMap, breakdown, name, j) ==
    IF j > Len(breakdown) THEN categoryMap
    ELSE BreakdownInto(CategoryInto(categoryMap, breakdown[j].k, breakdown[j].v, name),
                       breakdown, name, j + 1)

\* category totals whose set of courses holds one member per instance
RECURSIVE CategoryTotalsByInstance(_, _, _)
CategoryTotalsByInstance(categoryMap, courses, i) ==
    IF i > Len(courses) THEN categoryMap
    ELSE IF Truthy(courses[i].categoryBreakdown)
         THEN CategoryTotalsByInstance(BreakdownInto(categoryMap,
                                           courses[i].categoryBreakdown.entries,
                                           <<courses[i].normalizedCourseName, i>>, 1),
                                       courses, i + 1)
         ELSE CategoryTotalsByInstance(categoryMap, courses, i + 1)

RECURSIVE CategoryTotals(_, _, _)
CategoryTotals(categoryMap, courses, i) ==
    IF i > Len(courses) THEN categoryMap
    ELSE IF Truthy(courses[i].categoryBreakdown)
         THEN CategoryTotals(BreakdownInto(categoryMap,
                                 courses[i].categoryBreakdown.entries,
                                 courses[i].normalizedCourseName, 1),
                             courses, i + 1)
         ELSE CategoryTotals(categoryMap, courses, i + 1)

ByCategory(categoryMap) ==
    Items(SortByKey(<<>>,
        [i \in 1..Len(categoryMap) |->
            [key |-> 0 - SortKey(categoryMap[i].v.totalTime),
             item |-> [category |-> categoryMap[i].k,
                       totalTime |-> categoryMap[i].v.totalTime,
                       courseCount |-> Whole(Cardinality(categoryMap[i].v.courses)),
                       avgTimePerCourse |->
                           Div(categoryMap[i].v.totalTime,
                               Whole(Cardinality(categoryMap[i].v.courses)))]]], 1))

\* .slice(0, 20)
MaxTopCourses == 20

Slice(s, n) == SubSeq(s, 1, IF Len(s) < n THEN Len(s) ELSE n)

TopCourses(courses) ==
    Slice(Items(SortByKey(<<>>,
        [i \in 1..Len(courses) |->
            [key |-> 0 - SortKey(courses[i].totalTime),
             item |-> [courseName |-> courses[i].courseName,
                       totalTime |-> courses[i].totalTime,
                       year |-> courses[i].year,
                       status |-> courses[i].status]]], 1)), MaxTopCourses)

NoYearStatus == [legacy |-> Whole(0), modern |-> Whole(0), inProgress |-> Whole(0)]

\* the total of the classification of the course grows by its totalTime
Classified(existing, course) ==
    IF course.classification = "Legacy"
    THEN [existing EXCEPT !.legacy = Add(@, course.totalTime)]
    ELSE IF course.classification = "Modern"
    THEN [existing EXCEPT !.modern = Add(@, course.totalTime)]
    ELSE [existing EXCEPT !.inProgress = Add(@, course.totalTime)]

RECURSIVE YearStatusMap(_, _, _)
YearStatusMap(yearStatusMap, courses, i) ==
    IF i > Len(courses) THEN yearStatusMap
    ELSE YearStatusMap(
             Set(yearStatusMap, CourseYear(courses[i]),
                 Classified(GetOr(yearStatusMap, CourseYear(courses[i]), NoYearStatus),
                            courses[i])),
             courses, i + 1)

TimeByYearAndStatus(yearStatusMap) ==
    Items(SortByKey(<<>>,
        [i \in 1..Len(yearStatusMap) |->
            [key |-> SortKey(yearStatusMap[i].k),
             item |-> [year |-> yearStatusMap[i].k,
                       legacy |-> yearStatusMap[i].v.legacy,
                       modern |-> yearStatusMap[i].v.modern,
                       inProgress |-> yearStatusMap[i].v.inProgress]]], 1))

computeAnalytics(courses) ==
    [summary |-> Summary(courses, TotalTime(Whole(0), courses, 1)),
     byYear |-> ByYear(YearMap(EmptyObj, courses, 1)),
     byStatus |-> ByStatus(StatusMap(EmptyObj, courses, 1)),
     byCategory |-> ByCategory(CategoryTotals(EmptyObj, courses, 1)),
     topCourses |-> TopCourses(courses),
     timeByYearAndStatus |-> TimeByYearAndStatus(YearStatusMap(EmptyObj, courses, 1))]

\* ------------------------------------------------------------------------
\* Decoded rows the model draws its inputs from
\* ------------------------------------------------------------------------
Cell(k, v) == [k |-> k, v |-> v]

LegacyCatalog ==
    { <<Cell("Course Name", Str("Fire Safety 101")), Cell("Time spent", Str("2:30")),
        Cell("Reporting", Str("2023-05-01")), Cell("Status", Str("Archived"))>>,
      <<Cell("[LCT] Course Name (L)", Str("fire  safety 101!")), Cell("Time spent", Whole(4)),
        Cell("[LCT] Reporting (L)", Whole(2023))>>,
      <<Cell("Course Name", Str("Fire Safety 101")), Cell("Total Hours", Str("1:00")),
        Cell("Completed Date", Str("2025-03-01"))>> }

ModernCatalog ==
    { <<Cell("Course Name", Str("FIRE SAFETY 101")), Cell("Time spent", Str("1:30")),
        Cell("Reporting (M)", Str("2023-11-01"))>>,
      <<Cell("Course Name", Str("Fire Safety 101")), Cell("Year", Whole(2023))>>,
      <<Cell("Course Name", Str("New Course")), Cell("Time spent", Whole(5))>> }

TimeSpentCatalog ==
    { <<Cell("Course", Str("Fire Safety 101")), Cell("Category", Str("LP Development")),
        Cell("Hours", Whole(3))>>,
      <<Cell("Course", Str("fire safety 101 ")), Cell("Category", Str("Testing")),
        Cell("Hours", Whole(1))>>,
      <<Cell("Course", Str("New Course")), Cell("Hours", Str("0:30"))>> }

\* the sequences over S of length at most n
SeqsUpTo(S, n) == UNION {[1..k -> S] : k \in 0..n}

\* what the three normalizers return for the decoded files the model draws from
LegacyInputs == {normalizeLegacyData(raw) : raw \in SeqsUpTo(LegacyCatalog, MaxLegacy)}

ModernInputs == {normalizeModernData(raw) : raw \in SeqsUpTo(ModernCatalog, MaxModern)}

TimeSpentInputs ==
    {normalizeTimeSpentData(raw) : raw \in SeqsUpTo(TimeSpentCatalog, MaxTime)}

\* ------------------------------------------------------------------------
\* Files the user may select
\* ------------------------------------------------------------------------
Sources == {"legacy", "modern", "timeSpent"}

\* a file whose first sheet decodes to rows
Decoded(rows) == [ok |-> TRUE, rows |-> rows]

\* reader.onerror: reject(new Error('Failed to read file'))
Unreadable == [ok |-> FALSE, isError |-> TRUE, message |-> "Failed to read file"]

\* the decoder throws an Error: reject(error)
Malformed == [ok |-> FALSE, isError |-> TRUE, message |-> "Unsupported file"]

\* the decoder throws a value that is no Error
Garbled == [ok |-> FALSE, isError |-> FALSE, message |-> ""]

LegacyFiles ==
    { Decoded(<< <<Cell("Course Name", Str("Fire Safety 101")),
                   Cell("Time spent", Str("2:30")),
                   Cell("Reporting", Str("2023-05-01"))>>,
                 <<Cell("Course Name", Str("Fire Safety 101")),
                   Cell("Total Hours", Str("1:00")),
                   Cell("Completed Date", Str("2025-03-01"))>> >>),
      Decoded(<< <<Cell("Course Name", Str("Intro")), Cell("Time spent", Str("12")),
                   Cell("Reporting", Whole(2024))>> >>),
      Decoded(<< <<Cell("Course Name", Str("  ")), Cell("Time spent", Str("1:00"))>>,
                 <<Cell("Course Name", Str("Fire Safety 101")),
                   Cell("Time spent", Str("0:00")),
                   Cell("Reporting", Str("2023-05-01"))>> >>),
      Unreadable }

ModernFiles ==
    { Decoded(<< <<Cell("Course Name", Str("FIRE SAFETY 101")),
                   Cell("Time spent", Str("1:30")),
                   Cell("Reporting (M)", Str("2023-11-01"))>>,
                 <<Cell("Course Name", Str("New Course")), Cell("Time spent", Whole(5))>> >>),
      Decoded(<< <<Cell("Time spent", Whole(2))>> >>),
      Malformed }

TimeSpentFiles ==
    { Decoded(<< <<Cell("Course", Str("Fire Safety 101")),
                   Cell("Category", Str("LP Development")), Cell("Hours", Whole(3))>>,
                 <<Cell("Course", Str("Side Project")), Cell("Hours", Str("0:30"))>> >>),
      Decoded(<< <<Cell("Course", Str("")), Cell("Hours", Whole(2))>>,
                 <<Cell("Course", Str("fire safety 101 ")), Cell("Category", Str("Testing")),
                   Cell("Hours", Whole(1))>> >>),
      Garbled }

VARIABLES
    \* a call of mergeAndClassifyData: its arguments, its locals (errors,
    \* courseMap, timeSpentByCourse), the loop it is in and the iteration to run
    legacyData, modernData, timeSpentData, mst, pc, idx,
    \* the state of AppRoot
    currentStep, unifiedData, analytics, errors, lastUpdated,
    \* the run of handleFilesUploaded in flight: the files selected, the state of
    \* each decode, the first rejection, the position of the handler
    files, decode, failure, hpc,
    \* the toasts raised by the last run
    toasts,
    \* the number of runs started, which is also the time of the clock
    runs,
    \* the path of the page shown
    route,
    \* history: the pipeline functions the last run has called, and unifiedData,
    \* analytics and lastUpdated as they were when it was started
    invoked, prior,
    \* a call of one function of the pipeline: the function, its argument, its
    \* result once it has returned, and whether it has
    fn, arg, result, returned

mergeVars == <<legacyData, modernData, timeSpentData, mst, pc, idx>>

appVars == <<currentStep, unifiedData, analytics, errors, lastUpdated, files, decode,
             failure, hpc, toasts, runs, route, invoked, prior>>

applyVars == <<fn, arg, result, returned>>

vars == <<mergeVars, appVars, applyVars>>

\* null
Null == [t |-> "null"]

\* the state of AppRoot after construction, no run being in flight
AppIdle ==
    /\ currentStep = 1
    /\ unifiedData = <<>>
    /\ analytics = Null
    /\ errors = <<>>
    /\ lastUpdated = Null
    /\ files = Null
    /\ decode = [s \in Sources |-> "idle"]
    /\ failure = Null
    /\ hpc = "idle"
    /\ toasts = <<>>
    /\ runs = 0
    /\ route = "/"
    /\ invoked = <<>>
    /\ prior = [unifiedData |-> <<>>, analytics |-> Null, lastUpdated |-> Null]

\* no call of mergeAndClassifyData stepped through
MergeIdle ==
    /\ legacyData = <<>>
    /\ modernData = <<>>
    /\ timeSpentData = <<>>
    /\ mst = MergeStart
    /\ pc = "done"
    /\ idx = 1

\* no single function called
ApplyIdle ==
    /\ fn = "none"
    /\ arg = Null
    /\ result = Null
    /\ returned = FALSE

\* ------------------------------------------------------------------------
\* mergeAndClassifyData, one loop iteration at a time
\* ------------------------------------------------------------------------
Phases == <<"legacy", "modern", "group", "attach", "synth", "done">>

\* the number of iterations of the loop of a phase
LoopLen(phase, st) ==
    CASE phase = "legacy" -> Len(legacyData)
      [] phase = "modern" -> Len(modernData)
      [] phase = "group" -> Len(timeSpentData)
      [] phase = "attach" -> Len(st.courseMap)
      [] phase = "synth" -> Len(st.timeSpentByCourse)
      [] OTHER -> 0

\* the next iteration to run from (phase p, index i): loops that are over are left
RECURSIVE Settle(_, _, _)
Settle(p, i, st) ==
    IF Phases[p] = "done" \/ i <= LoopLen(Phases[p], st) THEN <<p, i>>
    ELSE Settle(p + 1, 1, st)

\* the position of a phase in Phases
PhaseIndex == [p \in {Phases[n] : n \in 1..Len(Phases)} |->
                  CHOOSE n \in 1..Len(Phases) : Phases[n] = p]

\* after an iteration: on to the next iteration, of this loop or of a later one
Advance ==
    /\ pc' = Phases[Settle(PhaseIndex[pc], idx + 1, mst')[1]]
    /\ idx' = Settle(PhaseIndex[pc], idx + 1, mst')[2]
    /\ UNCHANGED <<legacyData, modernData, timeSpentData, appVars, applyVars>>

MergeLegacy == pc = "legacy" /\ mst' = LegacyStep(mst, legacyData, idx) /\ Advance

MergeModern == pc = "modern" /\ mst' = ModernStep(mst, modernData, idx) /\ Advance

MergeGroup == pc = "group" /\ mst' = GroupStep(mst, timeSpentData, idx) /\ Advance

MergeAttach == pc = "attach" /\ mst' = AttachStep(mst, idx) /\ Advance

MergeSynth == pc = "synth" /\ mst' = SynthStep(mst, idx) /\ Advance

InitMerge ==
    /\ legacyData \in {n.data : n \in LegacyInputs}
    /\ modernData \in {n.data : n \in ModernInputs}
    /\ timeSpentData \in {n.data : n \in TimeSpentInputs}
    /\ mst = MergeStart
    /\ pc = Phases[Settle(1, 1, MergeStart)[1]]
    /\ idx = 1
    /\ AppIdle
    /\ ApplyIdle

NextMerge == MergeLegacy \/ MergeModern \/ MergeGroup \/ MergeAttach \/ MergeSynth

SpecMerge == InitMerge /\ [][NextMerge]_vars

\* ------------------------------------------------------------------------
\* Properties of mergeAndClassifyData
\* ------------------------------------------------------------------------
\* the positions of the course map
Courses == 1..Len(mst.courseMap)

\* the course at position j of the map
Course(j) == mst.courseMap[j].v

\* hours, in scaled units, of the entries at the positions S of timeSpentData
RECURSIVE HoursAt(_)
HoursAt(S) ==
    IF S = {} THEN 0
    ELSE LET i == CHOOSE x \in S : TRUE
         IN EntryHours(timeSpentData[i]).n + HoursAt(S \ {i})

\* the positions of the time entries of a normalized course name
EntriesNamed(name) ==
    {i \in 1..Len(timeSpentData) :
        normalizeCourseName(Get(timeSpentData[i], "courseName")) = name}

\* the time entries an instance holds in rawRecords.timeSpent
Attached(course) ==
    IF course.rawRecords.timeSpent = Undefined THEN <<>>
    ELSE course.rawRecords.timeSpent.items

\* the year of the Modern record at position i, as Step 2 takes it
ModernYear(i) ==
    Or(Or(extractReportingYear(modernData[i], "Modern"), Get(modernData[i], "year")),
       Whole(ModernDefaultYear))

\* the Modern record about to be processed has the name and year of a course of the map
ModernTaken ==
    /\ pc = "modern"
    /\ \E j \in Courses :
          /\ Course(j).normalizedCourseName =
                 normalizeCourseName(Get(modernData[idx], "courseName"))
          /\ Course(j).year = ModernYear(idx)

\* the diagnostics a step appends
Emitted == SubSeq(mst'.errors, Len(mst.errors) + 1, Len(mst'.errors))

IsDuplicateWarning(e) ==
    /\ e.severity = "warning"
    /\ e.file = "Modern Course Data"
    /\ Len(e.message) >= 31
    /\ SubSeq(e.message, 1, 31) = "Duplicate course instance found"

IsReportingWarning(e) ==
    /\ e.severity = "warning"
    /\ e.file = "Modern Course Data"
    /\ e.field = "Reporting"

\* the map is as it was and no instance is made of the Modern record
ModernDiscarded ==
    /\ mst'.courseMap = mst.courseMap
    /\ \A j \in 1..Len(mst'.courseMap) :
          mst'.courseMap[j].v.rawRecords.modern # Ref(idx, modernData[idx])

\* C1 (as the code has it): a Modern record whose name and year are those of a
\* course already in the map is discarded: the map is left entirely unchanged,
\* no instance is made of the record, and the step emits one duplicate-course
\* warning, preceded by a missing-Reporting warning when the record has no
\* Reporting year of its own; nothing else is emitted
C1_ModernDiscarded ==
    [][ModernTaken =>
          /\ ModernDiscarded
          /\ Len(mst'.errors) >= Len(mst.errors)
          /\ SubSeq(mst'.errors, 1, Len(mst.errors)) = mst.errors
          /\ IF Truthy(extractReportingYear(modernData[idx], "Modern"))
             THEN Len(Emitted) = 1 /\ IsDuplicateWarning(Emitted[1])
             ELSE /\ Len(Emitted) = 2
                  /\ IsReportingWarning(Emitted[1])
                  /\ IsDuplicateWarning(Emitted[2])]_vars

\* C1 as stated: exactly one warning is emitted for the discarded Modern record
C1_ExactlyOneWarning ==
    [][ModernTaken =>
          /\ ModernDiscarded
          /\ Len(Emitted) = 1
          /\ Emitted[1].severity = "warning"]_vars

\* a Modern record without a Reporting year has just been discarded: its two
\* warnings close the diagnostics, the Legacy course is the only one of the map
C1_Witness ==
    /\ pc # "modern" \/ idx > 1
    /\ Len(mst.errors) >= 2
    /\ IsReportingWarning(mst.errors[Len(mst.errors) - 1])
    /\ IsDuplicateWarning(mst.errors[Len(mst.errors)])
    /\ Len(modernData) >= 1
    /\ Len(mst.courseMap) >= 1
    /\ \A j \in Courses : Course(j).classification = "Legacy"

\* C2: the merge being over, every time entry passed in is held, once, in
\* rawRecords.timeSpent of exactly one instance; that instance has the
\* normalized name of the entry, and is either a Legacy or Modern instance or
\* the only In Progress instance of that name
C2_NoOrphan ==
    pc = "done" =>
        \A i \in 1..Len(timeSpentData) :
            LET entry == Ref(i, timeSpentData[i])
                name == normalizeCourseName(Get(timeSpentData[i], "courseName"))
                holders == {j \in Courses :
                               \E k \in 1..Len(Attached(Course(j))) :
                                   Attached(Course(j))[k] = entry}
            IN /\ Cardinality(holders) = 1
               /\ \A j \in holders :
                     /\ Cardinality({k \in 1..Len(Attached(Course(j))) :
                                        Attached(Course(j))[k] = entry}) = 1
                     /\ Course(j).normalizedCourseName = name
                     /\ Course(j).classification \in {"Legacy", "Modern", "In Progress"}
                     /\ Course(j).classification = "In Progress" =>
                            Cardinality({m \in Courses :
                                /\ Course(m).classification = "In Progress"
                                /\ Course(m).normalizedCourseName = name}) = 1

\* the merge is over, one entry is held by a Legacy instance and another by a
\* synthesized one
C2_Witness ==
    /\ pc = "done"
    /\ Len(timeSpentData) = 2
    /\ \E j \in Courses : Course(j).classification = "Legacy" /\ Len(Attached(Course(j))) = 1
    /\ \E j \in Courses :
          Course(j).classification = "In Progress" /\ Len(Attached(Course(j))) = 1

\* the first position of the map whose course has the normalized name
FirstNamed(name) ==
    CHOOSE j \in Courses :
        /\ Course(j).normalizedCourseName = name
        /\ \A m \in 1..(j - 1) : Course(m).normalizedCourseName # name

\* the entries at the positions S of timeSpentData, in order
RECURSIVE EntriesAt(_)
EntriesAt(S) ==
    IF S = {} THEN <<>>
    ELSE LET i == CHOOSE x \in S : \A y \in S : x <= y
         IN <<Ref(i, timeSpentData[i])>> \o EntriesAt(S \ {i})

\* the categories of the entries at the positions S
CategoriesAt(S) == {EntryCategory(timeSpentData[i]) : i \in S}

\* a breakdown holds, for each category of the entries at S, their summed hours
BreakdownOf(breakdown, S) ==
    /\ breakdown # Undefined
    /\ {breakdown.entries[k].k : k \in 1..Len(breakdown.entries)} = CategoriesAt(S)
    /\ \A k \in 1..Len(breakdown.entries) :
          /\ IsNum(breakdown.entries[k].v)
          /\ breakdown.entries[k].v.n =
                 HoursAt({i \in S : EntryCategory(timeSpentData[i]) = breakdown.entries[k].k})

\* C3 (as the code has it): the merge being over, of the Legacy and Modern
\* instances whose normalized name is that of at least one time entry, the
\* first in map order, whatever its year, has a categoryBreakdown and a
\* rawRecords.timeSpent built from the group of that name; the later ones of
\* the same name have neither
C3_FirstInstanceAttached ==
    pc = "done" =>
        \A j \in Courses :
            (/\ Course(j).classification \in {"Legacy", "Modern"}
             /\ EntriesNamed(Course(j).normalizedCourseName) # {}) =>
                IF j = FirstNamed(Course(j).normalizedCourseName)
                THEN /\ BreakdownOf(Course(j).categoryBreakdown,
                                    EntriesNamed(Course(j).normalizedCourseName))
                     /\ Attached(Course(j)) =
                            EntriesAt(EntriesNamed(Course(j).normalizedCourseName))
                ELSE /\ Course(j).categoryBreakdown = Undefined
                     /\ Course(j).rawRecords.timeSpent = Undefined

\* C3 as stated: every Legacy or Modern instance whose normalized name is that
\* of a time entry has a breakdown and entries built from that group
C3_EveryInstanceAttached ==
    pc = "done" =>
        \A j \in Courses :
            (/\ Course(j).classification \in {"Legacy", "Modern"}
             /\ EntriesNamed(Course(j).normalizedCourseName) # {}) =>
                /\ BreakdownOf(Course(j).categoryBreakdown,
                               EntriesNamed(Course(j).normalizedCourseName))
                /\ Attached(Course(j)) =
                       EntriesAt(EntriesNamed(Course(j).normalizedCourseName))

\* two instances of one name and different years, and entries of that name:
\* the first has them, the second has none
C3_Witness ==
    /\ pc = "done"
    /\ \E j, m \in Courses :
          /\ j < m
          /\ Course(j).normalizedCourseName = Course(m).normalizedCourseName
          /\ Course(j).year # Course(m).year
          /\ Len(Attached(Course(j))) = 2
          /\ Course(m).categoryBreakdown = Undefined

\* the values of a breakdown, summed
RECURSIVE BreakdownSum(_, _)
BreakdownSum(entries, k) ==
    IF k > Len(entries) THEN 0 ELSE entries[k].v.n + BreakdownSum(entries, k + 1)

\* C4: in every state of the merge, for every instance that has a
\* categoryBreakdown, each category's value is the summed hours of the time
\* entries of the instance's normalized name that carry the category (those
\* without one under "Uncategorized"), there is no other category, and the
\* values sum to the hours of all the entries of that name
C4_CategoryConservation ==
    \A j \in Courses :
        Course(j).categoryBreakdown # Undefined =>
            /\ BreakdownOf(Course(j).categoryBreakdown,
                           EntriesNamed(Course(j).normalizedCourseName))
            /\ BreakdownSum(Course(j).categoryBreakdown.entries, 1) =
                   HoursAt(EntriesNamed(Course(j).normalizedCourseName))

\* the merge is over and an instance holds two entries of one category, of 3
\* hours each, under a single total of 6 hours
C4_Witness ==
    /\ pc = "done"
    /\ \E j \in Courses :
          /\ Course(j).categoryBreakdown = MapOf(<<[k |-> "LP Development", v |-> Whole(6)]>>)
          /\ Len(Attached(Course(j))) = 2

\* the time value of the row an instance was made of
OwnTime(course) ==
    IF course.classification = "Legacy"
    THEN Get(legacyData[course.rawRecords.legacy.ref], "totalTime")
    ELSE Or(Get(modernData[course.rawRecords.modern.ref], "totalTime"), Whole(0))

\* the instance is made of a row of its own file, at the position it refers to
OwnRow(course) ==
    IF course.classification = "Legacy"
    THEN /\ course.rawRecords.legacy # Undefined
         /\ course.rawRecords.legacy.ref \in 1..Len(legacyData)
         /\ course.rawRecords.legacy.rec = legacyData[course.rawRecords.legacy.ref]
    ELSE /\ course.rawRecords.modern # Undefined
         /\ course.rawRecords.modern.ref \in 1..Len(modernData)
         /\ course.rawRecords.modern.rec = modernData[course.rawRecords.modern.ref]

\* a step of the attach loop changes, in the map, only categoryBreakdown and
\* rawRecords.timeSpent
AttachFrame ==
    pc = "attach" =>
        /\ Len(mst'.courseMap) = Len(mst.courseMap)
        /\ \A j \in Courses :
              /\ mst'.courseMap[j].k = mst.courseMap[j].k
              /\ [mst'.courseMap[j].v EXCEPT
                     !.categoryBreakdown = Course(j).categoryBreakdown,
                     !.rawRecords.timeSpent = Course(j).rawRecords.timeSpent] = Course(j)

\* C5: in every state of the merge, the totalTime of a Legacy or Modern
\* instance is the time value of the row it was made of; and a step that
\* attaches time entries changes only categoryBreakdown and
\* rawRecords.timeSpent, leaving totalTime, status, classification, year and
\* metadata as they were
C5_TimeSourceExclusive ==
    /\ [](\A j \in Courses :
              Course(j).classification \in {"Legacy", "Modern"} =>
                  OwnRow(Course(j)) /\ Course(j).totalTime = OwnTime(Course(j)))
    /\ [][AttachFrame]_vars

\* a Legacy instance has entries whose hours are not its totalTime
C5_Witness ==
    /\ pc = "done"
    /\ \E j \in Courses :
          /\ Course(j).classification = "Legacy"
          /\ Len(Attached(Course(j))) >= 1
          /\ Course(j).totalTime.n # HoursAt(EntriesNamed(Course(j).normalizedCourseName))
          /\ Course(j).totalTime.n > 0

\* the year of the Legacy record at position i, as Step 1 takes it
LegacyYear(i) ==
    Or(Or(extractReportingYear(legacyData[i], "Legacy"), Get(legacyData[i], "year")),
       Whole(LegacyDefaultYear))

\* the Legacy record at position i has the name and year of the course
LegacyClaims(i, course) ==
    /\ normalizeCourseName(Get(legacyData[i], "courseName")) = course.normalizedCourseName
    /\ LegacyYear(i) = course.year

\* the Modern record at position i has the name and year of the course
ModernClaims(i, course) ==
    /\ normalizeCourseName(Get(modernData[i], "courseName")) = course.normalizedCourseName
    /\ ModernYear(i) = course.year

\* C6 as stated: the merge being over, a Legacy or Modern instance is built
\* from the first record, in processing order (Legacy rows, then Modern
\* rows), that has its name and year: its courseName, totalTime and metadata
\* are those of that record
C6_FirstWriterWins ==
    pc = "done" =>
        \A j \in Courses :
            Course(j).classification \in {"Legacy", "Modern"} =>
                IF \E i \in 1..Len(legacyData) : LegacyClaims(i, Course(j))
                THEN LET first == CHOOSE i \in 1..Len(legacyData) :
                                      /\ LegacyClaims(i, Course(j))
                                      /\ \A m \in 1..(i - 1) : ~LegacyClaims(m, Course(j))
                     IN /\ Course(j).rawRecords.legacy = Ref(first, legacyData[first])
                        /\ Course(j).courseName = Get(legacyData[first], "courseName")
                        /\ Course(j).totalTime = Get(legacyData[first], "totalTime")
                        /\ Course(j).metadata = cleanMetadata(legacyData[first])
                ELSE LET first == CHOOSE i \in 1..Len(modernData) :
                                      /\ ModernClaims(i, Course(j))
                                      /\ \A m \in 1..(i - 1) : ~ModernClaims(m, Course(j))
                     IN /\ Course(j).rawRecords.modern = Ref(first, modernData[first])
                        /\ Course(j).courseName = Get(modernData[first], "courseName")
                        /\ Course(j).totalTime =
                               Or(Get(modernData[first], "totalTime"), Whole(0))
                        /\ Course(j).metadata = cleanMetadata(modernData[first])

\* C7: in every state of the merge, an instance classified In Progress has
\* neither a legacy nor a modern rawRecord, an empty metadata map, the status
\* "In Progress", the current calendar year as reportingYear and year, and a
\* totalTime that is the sum of the hours of the entries in its
\* rawRecords.timeSpent
C7_InProgressFromEntries ==
    \A j \in Courses :
        Course(j).classification = "In Progress" =>
            /\ Course(j).rawRecords.legacy = Undefined
            /\ Course(j).rawRecords.modern = Undefined
            /\ Course(j).metadata = EmptyObj
            /\ Course(j).status = Str("In Progress")
            /\ Course(j).reportingYear = Whole(CurrentYear)
            /\ Course(j).year = Whole(CurrentYear)
            /\ Len(Attached(Course(j))) >= 1
            /\ IsNum(Course(j).totalTime)
            /\ Course(j).totalTime.n =
                   HoursAt({Attached(Course(j))[k].ref : k \in 1..Len(Attached(Course(j)))})
            /\ \A k \in 1..Len(Attached(Course(j))) :
                  Attached(Course(j))[k] =
                      Ref(Attached(Course(j))[k].ref, timeSpentData[Attached(Course(j))[k].ref])

\* an In Progress instance made of two entries, of 3 hours and 1 hour
C7_Witness ==
    \E j \in Courses :
        /\ Course(j).classification = "In Progress"
        /\ Len(Attached(Course(j))) = 2
        /\ Attached(Course(j))[1].ref # Attached(Course(j))[2].ref
        /\ Course(j).totalTime = Whole(4)

\* C8: in every state of the merge, and so in the array it returns, no two
\* instances have the same normalizedCourseName and the same year
C8_KeyUnique ==
    \A j, m \in Courses :
        (/\ Course(j).normalizedCourseName = Course(m).normalizedCourseName
         /\ Course(j).year = Course(m).year) => j = m

\* the merge is over: a Modern row with the name and year of the first course
\* was discarded, and the map holds two courses of one name and different years
C8_Witness ==
    /\ pc = "done"
    /\ Len(mst.courseMap) = 2
    /\ Course(1).normalizedCourseName = Course(2).normalizedCourseName
    /\ Course(1).year # Course(2).year
    /\ Len(modernData) >= 1
    /\ ModernClaims(1, Course(1))

\* ------------------------------------------------------------------------
\* AppRoot: handleFilesUploaded
\* ------------------------------------------------------------------------
\* new Date() at time now
DateAt(now) == [t |-> "date", time |-> now]

Toast(kind, message) == [kind |-> kind, message |-> message]

\* ValidationError.field is optional: NoField stands for its absence
NoField == ""

\* the number of diagnostics, whatever their severity
DiagnosticCount(allErrors, severity) == Len(allErrors)

\* allErrors.filter(e => e.severity === severity).length
SeverityCount(allErrors, severity) ==
    Cardinality({e \in 1..Len(allErrors) : allErrors[e].severity = severity})

\* err instanceof Error ? err.message : 'Failed to process files'
ErrorMessage(err) == IF err.isError THEN err.message ELSE "Failed to process files"

\* the handler up to its await: the three decodes are started
StartRun(selected) ==
    /\ runs < MaxRuns
    /\ prior' = [unifiedData |-> unifiedData, analytics |-> analytics,
                 lastUpdated |-> lastUpdated]
    /\ currentStep' = 2
    /\ errors' = <<>>
    /\ lastUpdated' = DateAt(runs + 1)
    /\ runs' = runs + 1
    /\ toasts' = <<Toast("info", "Parsing CSV files...")>>
    /\ files' = selected
    /\ decode' = [s \in Sources |-> "reading"]
    /\ failure' = Null
    /\ hpc' = "awaiting"
    /\ invoked' = <<"parseFile", "parseFile", "parseFile">>
    /\ UNCHANGED <<unifiedData, analytics, route, mergeVars, applyVars>>

\* the upload form rendered whatever the step
handleFilesUploadedAnyStep(selected) == route = "/" /\ StartRun(selected)

\* the upload form rendered on the dashboard too, for a new upload
handleFilesUploadedFromDashboard(selected) ==
    /\ currentStep # 2
    /\ route = "/"
    /\ StartRun(selected)

\* a click on Process: the upload form is rendered by the page of path "/"
\* while currentStep is 1, and calls the handler with the three files
handleFilesUploaded(selected) ==
    /\ currentStep = 1
    /\ route = "/"
    /\ StartRun(selected)

\* the decode of one file settles: Promise.all rejects with the first rejection
parseFile(source) ==
    /\ decode[source] = "reading"
    /\ decode' = [decode EXCEPT ![source] = IF files[source].ok THEN "resolved"
                                            ELSE "rejected"]
    /\ failure' = IF ~files[source].ok /\ failure = Null THEN files[source] ELSE failure
    /\ UNCHANGED <<currentStep, unifiedData, analytics, errors, lastUpdated, files, hpc,
                   toasts, runs, route, invoked, prior, mergeVars, applyVars>>

\* the gate: setErrors(allErrors); toast.error(...); setCurrentStep(1); return
Halt(allErrors) ==
    /\ errors' = allErrors
    /\ toasts' = toasts \o
           <<Toast("info", "Validating and normalizing data..."),
             Toast("error", "Found " \o JsString(Whole(SeverityCount(allErrors, "error")))
                                \o " critical error(s). Please review.")>>
    /\ currentStep' = 1
    /\ invoked' = invoked \o
           <<"normalizeLegacyData", "normalizeModernData", "normalizeTimeSpentData">>
    /\ UNCHANGED <<unifiedData, analytics>>

\* the toast that closes a run
Closing(allErrors) ==
    IF SeverityCount(allErrors, "warning") > 0
    THEN Toast("warning", "Processing complete with "
                              \o JsString(Whole(SeverityCount(allErrors, "warning")))
                              \o " warning(s)")
    ELSE Toast("success", "Data processed successfully!")

\* Publish with the analytics computed from the unifiedData of the state, which
\* setUnifiedData has not changed yet
PublishStale(allErrors, unified) ==
    /\ unifiedData' = unified
    /\ analytics' = computeAnalytics(unifiedData)
    /\ errors' = allErrors
    /\ currentStep' = 3
    /\ toasts' = toasts \o
           <<Toast("info", "Validating and normalizing data..."),
             Toast("info", "Merging data and classifying courses..."),
             Toast("info", "Computing analytics..."),
             Closing(allErrors)>>
    /\ invoked' = invoked \o
           <<"normalizeLegacyData", "normalizeModernData", "normalizeTimeSpentData",
             "mergeAndClassifyData", "computeAnalytics">>

\* Steps 4 and 5 of the handler, the merge being done
Publish(allErrors, unified) ==
    /\ unifiedData' = unified
    /\ analytics' = computeAnalytics(unified)
    /\ errors' = allErrors
    /\ currentStep' = 3
    /\ toasts' = toasts \o
           <<Toast("info", "Validating and normalizing data..."),
             Toast("info", "Merging data and classifying courses..."),
             Toast("info", "Computing analytics..."),
             Closing(allErrors)>>
    /\ invoked' = invoked \o
           <<"normalizeLegacyData", "normalizeModernData", "normalizeTimeSpentData",
             "mergeAndClassifyData", "computeAnalytics">>

\* Step 3 with the diagnostics of the merge put ahead of the normalizers'
MergedAhead(allErrors, mergeResult) ==
    Publish(mergeResult.errors \o allErrors, mergeResult.unified)

\* Step 3 of the handler: allErrors.push(...mergeResult.errors)
Merged(allErrors, mergeResult) ==
    Publish(allErrors \o mergeResult.errors, mergeResult.unified)

\* the check for critical errors, on the diagnostics of the three normalizers
Gate(legacyResult, modernResult, timeSpentResult, allErrors) ==
    IF SeverityCount(allErrors, "error") > 0
    THEN Halt(allErrors)
    ELSE Merged(allErrors,
                mergeAndClassifyData(legacyResult.data, modernResult.data,
                                     timeSpentResult.data))

\* Step 2 of the handler
Normalized(legacyResult, modernResult, timeSpentResult) ==
    Gate(legacyResult, modernResult, timeSpentResult,
         legacyResult.errors \o modernResult.errors \o timeSpentResult.errors)

\* AfterParse as a race: the handler goes on once one decode has resolved
AfterParseRace ==
    /\ hpc = "awaiting"
    /\ \E s \in Sources : decode[s] = "resolved"
    /\ \A s \in Sources : files[s].ok
    /\ Normalized(normalizeLegacyData(files.legacy.rows),
                  normalizeModernData(files.modern.rows),
                  normalizeTimeSpentData(files.timeSpent.rows))
    /\ hpc' = "idle"
    /\ UNCHANGED <<lastUpdated, files, decode, failure, runs, route, prior, mergeVars,
                   applyVars>>

\* the handler after its await, the three decodes having resolved
AfterParse ==
    /\ hpc = "awaiting"
    /\ \A s \in Sources : decode[s] = "resolved"
    /\ Normalized(normalizeLegacyData(files.legacy.rows),
                  normalizeModernData(files.modern.rows),
                  normalizeTimeSpentData(files.timeSpent.rows))
    /\ hpc' = "idle"
    /\ UNCHANGED <<lastUpdated, files, decode, failure, runs, route, prior, mergeVars,
                   applyVars>>

\* the catch block, a decode having rejected
CatchFailure ==
    /\ hpc = "awaiting"
    /\ failure # Null
    /\ toasts' = Append(toasts, Toast("error", ErrorMessage(failure)))
    /\ errors' = <<Diagnostic("System", NoRow, NoField, ErrorMessage(failure), "error")>>
    /\ currentStep' = 1
    /\ hpc' = "idle"
    /\ UNCHANGED <<unifiedData, analytics, lastUpdated, files, decode, failure, runs,
                   route, invoked, prior, mergeVars, applyVars>>

\* the paths of the sidebar: the dashboard and upload page, and two other pages
Paths == {"/", "/projects", "/development"}

\* a click on a link of the sidebar: the links of the pages are disabled
\* until the dashboard is shown with data, the Upload Files link never is
Navigate(path) ==
    /\ path = "/" \/ (currentStep = 3 /\ Len(unifiedData) > 0)
    /\ route' = path
    /\ UNCHANGED <<currentStep, unifiedData, analytics, errors, lastUpdated, files, decode,
                   failure, hpc, toasts, runs, invoked, prior, mergeVars, applyVars>>

Init == AppIdle /\ MergeIdle /\ ApplyIdle

Next ==
    \/ \E legacy \in LegacyFiles, modern \in ModernFiles, timeSpent \in TimeSpentFiles :
           handleFilesUploaded([legacy |-> legacy, modern |-> modern,
                                timeSpent |-> timeSpent])
    \/ \E source \in Sources : parseFile(source)
    \/ AfterParse
    \/ CatchFailure
    \/ \E path \in Paths : Navigate(path)

Spec == Init /\ [][Next]_vars

\* ------------------------------------------------------------------------
\* Properties of handleFilesUploaded
\* ------------------------------------------------------------------------
\* the diagnostics the three normalizers return for the files of the run
NormalizerDiagnostics ==
    normalizeLegacyData(files.legacy.rows).errors
        \o normalizeModernData(files.modern.rows).errors
        \o normalizeTimeSpentData(files.timeSpent.rows).errors

\* the functions a run has called
Called(calls) == {calls[k] : k \in 1..Len(calls)}

\* the handler resumes after its await, the three decodes having resolved
Resumes ==
    /\ hpc = "awaiting"
    /\ \A s \in Sources : decode[s] = "resolved"
    /\ hpc' = "idle"

HasCritical(diagnostics) ==
    \E e \in 1..Len(diagnostics) : diagnostics[e].severity = "error"

\* C9: when the handler resumes and the diagnostics of the three normalizers
\* hold an entry of severity error, the run calls neither mergeAndClassifyData
\* nor computeAnalytics, unifiedData and analytics stay as they were, errors
\* becomes those diagnostics and currentStep becomes 1; when they hold none,
\* warnings or not, the run calls both and goes on to step 3
C9_CriticalGate ==
    [][Resumes =>
          IF HasCritical(NormalizerDiagnostics)
          THEN /\ "mergeAndClassifyData" \notin Called(invoked')
               /\ "computeAnalytics" \notin Called(invoked')
               /\ unifiedData' = unifiedData
               /\ analytics' = analytics
               /\ errors' = NormalizerDiagnostics
               /\ currentStep' = 1
          ELSE /\ "mergeAndClassifyData" \in Called(invoked')
               /\ "computeAnalytics" \in Called(invoked')
               /\ currentStep' = 3]_vars

\* a run was halted by the gate: it is over, back at step 1, and errors holds
\* a normalizer's error next to a warning
C9_Witness ==
    /\ hpc = "idle"
    /\ runs >= 1
    /\ currentStep = 1
    /\ failure = Null
    /\ \E e \in 1..Len(errors) : errors[e].severity = "error" /\ errors[e].file # "System"
    /\ \E e \in 1..Len(errors) : errors[e].severity = "warning"
    /\ "mergeAndClassifyData" \notin Called(invoked)

\* C10 as stated: a run in which a decode failed being over, unifiedData,
\* analytics and lastUpdated are as they were before the upload was started,
\* currentStep is 1, and errors holds one error-severity diagnostic with the
\* failure message
C10_FailurePreservesState ==
    (hpc = "idle" /\ failure # Null) =>
        /\ unifiedData = prior.unifiedData
        /\ analytics = prior.analytics
        /\ lastUpdated = prior.lastUpdated
        /\ currentStep = 1
        /\ Len(errors) = 1
        /\ errors[1].severity = "error"
        /\ errors[1].message = ErrorMessage(failure)

\* the functions that come after the join
AfterJoin ==
    {"normalizeLegacyData", "normalizeModernData", "normalizeTimeSpentData",
     "mergeAndClassifyData", "computeAnalytics"}

\* C11: in every state of a run, a normalizer has been called only if the
\* three decodes have all resolved, whatever the order they settled in; and
\* once a decode has failed, the run calls no normalizer, no reconciliation
\* and no aggregation, and unifiedData and analytics stay as they were when
\* the run was started
C11_JoinBarrier ==
    /\ Called(invoked) \cap AfterJoin # {} => \A s \in Sources : decode[s] = "resolved"
    /\ (\E s \in Sources : decode[s] = "rejected") =>
           /\ Called(invoked) \cap AfterJoin = {}
           /\ unifiedData = prior.unifiedData
           /\ analytics = prior.analytics
           /\ currentStep # 3

\* a run is over by the failure of the Modern decode, which settled after the
\* Time Spent decode and before the Legacy decode, still being read
C11_Witness ==
    /\ hpc = "idle"
    /\ decode = [legacy |-> "reading", modern |-> "rejected", timeSpent |-> "resolved"]
    /\ failure = files.modern
    /\ currentStep = 1

\* a run has gone through: the dashboard shows its result
Published == hpc = "idle" /\ currentStep = 3

\* the name and year a Legacy or Modern record is keyed by
IdentityOf(record, fileType, defaultYear) ==
    <<normalizeCourseName(Get(record, "courseName")),
      Or(Or(extractReportingYear(record, fileType), Get(record, "year")), Whole(defaultYear))>>

\* the unified dataset holds an instance made of the record at position i of a source
Materialized(source, i, record) ==
    \E u \in 1..Len(unifiedData) : unifiedData[u].rawRecords[source] = Ref(i, record)

\* the rows of a Time Spent sheet that have a course name
NamedRows(rows) ==
    {i \in 1..Len(rows) : RowCourseName(rows[i], FindKey(rows[i], "entryCourse", 1)) # ""}

ToNumber(str) ==
    IF str = "" THEN Whole(0)
    ELSE IF str # "." /\ Len(Split(str, ".", "")) = 1 THEN Num(Magnitude(str, ""))
    ELSE IF str # "." /\ Len(Split(str, ".", "")) = 2
    THEN Num(Magnitude(Split(str, ".", "")[1], Split(str, ".", "")[2]))
    ELSE NaN

\* what (\d+(?:\.\d+)?) captures at the head of rest, "" when it does not match
Token(rest) ==
    IF DigitPrefix(rest) = "" THEN ""
    ELSE IF FractionPart(SubSeq(rest, Len(DigitPrefix(rest)) + 1, Len(rest))) = ""
    THEN DigitPrefix(rest)
    ELSE DigitPrefix(rest) \o "."
             \o FractionPart(SubSeq(rest, Len(DigitPrefix(rest)) + 1, Len(rest)))

\* rest after a prefix and the whitespace that follows it
Past(rest, prefix) == TrimStart(SubSeq(rest, Len(prefix) + 1, Len(rest)))

\* what [-to]+ matches at the head of rest
RECURSIVE SeparatorPrefix(_)
SeparatorPrefix(rest) ==
    IF rest # "" /\ Char(rest, 1) \in {"-", "t", "o"}
    THEN Char(rest, 1) \o SeparatorPrefix(SubSeq(rest, 2, Len(rest)))
    ELSE ""

\* the two captures of the range pattern matched at the head of rest, <<>>
\* when it does not match there
RangeAt(rest) ==
    IF /\ Token(rest) # ""
       /\ SeparatorPrefix(Past(rest, Token(rest))) # ""
       /\ Token(Past(Past(rest, Token(rest)), SeparatorPrefix(Past(rest, Token(rest))))) # ""
    THEN <<Token(rest),
           Token(Past(Past(rest, Token(rest)), SeparatorPrefix(Past(rest, Token(rest)))))>>
    ELSE <<>>

\* value.match(/(\d+(?:\.\d+)?)\s*[-to]+\s*(\d+(?:\.\d+)?)/): the leftmost match
RECURSIVE FirstRange(_)
FirstRange(value) ==
    IF value = "" THEN <<>>
    ELSE IF RangeAt(value) # <<>> THEN RangeAt(value)
    ELSE FirstRange(SubSeq(value, 2, Len(value)))

\* rest begins with one of the units, followed by a word boundary
HasUnit(rest, units) ==
    \E unit \in units :
        /\ Len(rest) >= Len(unit)
        /\ SubSeq(rest, 1, Len(unit)) = unit
        /\ Len(rest) = Len(unit) \/ ~IsWord(Char(rest, Len(unit) + 1))

\* value.match(/(\d+(?:\.\d+)?)\s*(?:unit|...)\b/): the capture of the leftmost
\* match, "" when there is none
RECURSIVE FirstUnit(_, _)
FirstUnit(value, units) ==
    IF value = "" THEN ""
    ELSE IF Token(value) # "" /\ HasUnit(Past(value, Token(value)), units) THEN Token(value)
    ELSE FirstUnit(SubSeq(value, 2, Len(value)), units)

\* value.match(/^(\d{1,2}):(\d{2})(?::(\d{2}))?$/), on the fields of value
IsLengthClock(fields) ==
    /\ Len(fields) \in {2, 3}
    /\ IsDigits(fields[1]) /\ Len(fields[1]) <= 2
    /\ \A k \in 2..Len(fields) : IsDigits(fields[k]) /\ Len(fields[k]) = 2

\* value.replace(/[^\d.]/g, '')
RECURSIVE NumericOnly(_, _)
NumericOnly(value, i) ==
    IF i > Len(value) THEN ""
    ELSE IF IsDigit(Char(value, i)) \/ Char(value, i) = "."
         THEN Char(value, i) \o NumericOnly(value, i + 1)
         ELSE NumericOnly(value, i + 1)

\* Number.isNaN(n) ? null : n
NullIfNaN(n) == IF n = NaN THEN Null ELSE n

\* the rules of getCourseLengthHours on value, the matches being done
LengthByRules(value, rangeMatch, minMatch, hourMatch) ==
    IF Includes(value, "less than") /\ Includes(value, "hour") THEN Num(Scale \div 2)
    ELSE IF Includes(value, "under") /\ Includes(value, "hour") THEN Num(Scale \div 2)
    ELSE IF IsLengthClock(Split(value, ":", "")) THEN ClockHours(Split(value, ":", ""))
    ELSE IF rangeMatch # <<>>
    THEN Num((ToNumber(rangeMatch[1]).n + ToNumber(rangeMatch[2]).n) \div 2)
    ELSE IF minMatch # "" THEN Num(ToNumber(minMatch).n \div MinutesPerHour)
    ELSE IF hourMatch # "" THEN ToNumber(hourMatch)
    ELSE NullIfNaN(ToNumber(NumericOnly(value, 1)))

\* const value = String(rawValue).trim().toLowerCase(); ...
LengthOfValue(value) ==
    LengthByRules(value, FirstRange(value),
                  FirstUnit(value, {"min", "mins", "minute", "minutes"}),
                  FirstUnit(value, {"h", "hr", "hrs", "hour", "hours"}))

\* Object.keys(course.metadata).find(key => includes 'course' and 'length')
RECURSIVE FindLengthKey(_, _)
FindLengthKey(metadata, i) ==
    IF i > Len(metadata) THEN ""
    ELSE IF /\ Includes(ToLowerCase(metadata[i].k), "course")
            /\ Includes(ToLowerCase(metadata[i].k), "length")
    THEN metadata[i].k
    ELSE FindLengthKey(metadata, i + 1)

\* if (!rawValue || String(rawValue).trim() === '') return null;
LengthOfRaw(rawValue) ==
    IF ~Truthy(rawValue) \/ Trim(JsString(rawValue)) = "" THEN Null
    ELSE LengthOfValue(ToLowerCase(Trim(JsString(rawValue))))

getCourseLengthHours(course) ==
    IF FindLengthKey(course.metadata, 1) = "" THEN Null
    ELSE LengthOfRaw(Get(course.metadata, FindLengthKey(course.metadata, 1)))

\* ------------------------------------------------------------------------
\* Single calls of the functions of the pipeline
\* ------------------------------------------------------------------------
\* rows of a Legacy or Modern sheet
RawCourseRows ==
    { <<Cell("Course Name", Str("Fire Safety 101")), Cell("Time spent", Str("2:30")),
        Cell("Reporting", Str("2023-05-01"))>>,
      <<Cell("Course Name", Str("  ")), Cell("Time spent", Str("1:00"))>>,
      <<Cell("Time spent", Whole(2))>>,
      <<Cell("Title", Str(" Intro ")), Cell("Hours", Str("12")), Cell("Year", Whole(2024))>>,
      <<Cell("courseName", Str(" Raw ")), Cell("totalTime", Str("1:15"))>> }

\* rows of a Time Spent sheet
RawEntryRows ==
    { <<Cell("Course", Str("")), Cell("Hours", Whole(2))>>,
      <<Cell("Course", Str(" Fire Safety 101 ")), Cell("Category", Str("Testing")),
        Cell("Hours", Str("0:30")), Cell("User", Str("ana")), Cell("Notes", Str("n/a"))>> }

\* clock-style strings, with and without a marker
HourFields == {"0", "2", "13"}

MinuteFields == {"00", "30", "5"}

SecondFields == {"", ":00", ":45"}

Markers == {"", " AM", " PM", "pm"}

ClockStrings ==
    {Str(h \o ":" \o m \o sec \o marker) :
        h \in HourFields, m \in MinuteFields, sec \in SecondFields, marker \in Markers}

\* other cell values
PlainValues ==
    {Str("12"), Str("3.5"), Str("0"), Str("007"), Str(".5"), Str(" 40 "), Str("1,234"),
     Str("12h"), Str("abc"), Str("-4"), Str("d.5"), Str(""), Str("2:30:15:00"),
     Whole(3), Num(5400), Undefined}

\* the sheets whose records the model calls mergeAndClassifyData with hold at
\* most MaxReportedLegacy Legacy rows and MaxReportedModern Modern rows
MaxReportedLegacy == 2

MaxReportedModern == 1

\* rows that differ by their Reporting and Year columns
ReportingRows ==
    { <<Cell("Course Name", Str("Fire Safety 101")), Cell("Reporting", Str("2023-05-01"))>>,
      <<Cell("Course Name", Str("Fire Safety 101")), Cell("[LCT] Reporting (L)", Whole(2023))>>,
      <<Cell("Course Name", Str("Intro")), Cell("Year", Whole(2022)),
        Cell("[LCT] Reporting (M)", Str("2025-01-15"))>>,
      <<Cell("Course Name", Str("Intro")), Cell("Year", Whole(2022))>>,
      <<Cell("Course Name", Str("Intro"))>>,
      <<Cell("Course Name", Str("Intro")), Cell("Reporting (L)", Str("n/a")),
        Cell("Reporting (M)", Whole(2025))>> }

\* the normalized records of the sheets made of these rows
ReportedData ==
    {[legacyData |-> normalizeLegacyData(legacy).data,
      modernData |-> normalizeModernData(modern).data,
      timeSpentData |-> <<>>] :
        legacy \in SeqsUpTo(ReportingRows, MaxReportedLegacy),
        modern \in SeqsUpTo(ReportingRows, MaxReportedModern)}

\* phrases of a course length, by the rule they are written for
LessThanPhrases == {"Less than 1 hour", "under an hour", "Under 2 hours", "less than 1:30 hours"}

LengthHours == {"0", "1", "12"}

LengthMinutes == {"00", "30"}

LengthSeconds == {"", ":45"}

ClockPhrases ==
    {h \o ":" \o m \o sec : h \in LengthHours, m \in LengthMinutes, sec \in LengthSeconds}

RangeStarts == {"1", "1.5", "30"}

RangeSeparators == {" to ", "-", " - "}

RangeEnds == {"2", "2.5", "60"}

RangeSuffixes == {"", " hours", " mins"}

RangePhrases ==
    {x \o sep \o y \o suffix :
        x \in RangeStarts, sep \in RangeSeparators, y \in RangeEnds,
        suffix \in RangeSuffixes}

Amounts == {"45", "90", "0.5", "2"}

Gaps == {"", " "}

MinutePhrases ==
    {n \o gap \o unit : n \in Amounts, gap \in Gaps,
                         unit \in {"min", "mins", "minute", "Minutes"}}

HourPhrases ==
    {n \o gap \o unit : n \in Amounts, gap \in Gaps,
                         unit \in {"h", "hr", "hrs", "hour", "Hours"}}

BarePhrases == {"2", "2.5", " 3 ", "007"}

TextPhrases == {"tbd", "n/a", "self-paced", "Varies"}

MixedPhrases ==
    {"1 hour 30 min", "Under 90 minutes", "approx 3", "15 minimum", "1.2.3", "e.g.", "",
     "  ", "2 hours to 3"}

\* courses with a course length in their metadata, or without
LengthCourses ==
    {[metadata |-> <<Cell("Status", Str("Completed")), Cell("Course Length", Str(phrase))>>] :
        phrase \in LessThanPhrases \cup ClockPhrases \cup RangePhrases \cup MinutePhrases
                   \cup HourPhrases \cup BarePhrases \cup TextPhrases \cup MixedPhrases}
    \cup {[metadata |-> <<Cell("Status", Str("Completed")), Cell("Course Length", length)>>] :
              length \in {Whole(2), Num(5400), Whole(0)}}
    \cup {[metadata |-> <<Cell("Status", Str("Completed"))>>],
          [metadata |-> <<Cell("Length", Str("2"))>>],
          [metadata |-> <<Cell("COURSE LENGTH (hrs)", Str("2 hrs"))>>]}

Functions ==
    {"normalizeLegacyData", "normalizeModernData", "normalizeTimeSpentData", "extractNumber",
     "mergeAndClassifyData", "getCourseLengthHours", "computeAnalytics",
     "normalizeCourseName"}

\* what separates two words of a course name
NameSeparators == {" ", "  ", "\t", " - ", "-", " & ", "&", ": ", " : ", " (", "_"}

\* the course names normalizeCourseName is called with
CourseNames ==
    {Str(first \o sep \o second) :
        first \in {"Fire Safety", "R"}, sep \in NameSeparators, second \in {"101", "D"}}
    \cup {Str(""), Str("  "), Str("!"), Str(" Intro "), Str("(Draft) Intro"),
          Str("Intro (Draft)"), Str("Intro  to   Safety!"), Str("fire safety 101")}

\* the rows of a file of one row of the catalog, or of none
OneOrNone(catalog) == {<<>>} \cup {<<row>> : row \in catalog}

\* the datasets the merge returns for course files of one row at most
SmallDatasets(timeSpentFiles) ==
    {mergeAndClassifyData(normalizeLegacyData(l).data, normalizeModernData(m).data,
                          normalizeTimeSpentData(t).data).unified :
        l \in OneOrNone(LegacyCatalog), m \in OneOrNone(ModernCatalog),
        t \in timeSpentFiles}

\* the arrays of instances computeAnalytics is called with: the datasets the
\* merge returns for the files the model draws from, and two small datasets
\* put together, where a course may contribute to a category more than once
UnifiedDatasets ==
    {mergeAndClassifyData(l.data, m.data, t.data).unified :
        l \in LegacyInputs, m \in ModernInputs, t \in TimeSpentInputs}
    \cup {a \o b : a \in SmallDatasets(OneOrNone(TimeSpentCatalog)),
                   b \in SmallDatasets(SeqsUpTo(TimeSpentCatalog, MaxTime))}

\* the arguments the model calls a function with
Arguments(f) ==
    CASE f = "normalizeLegacyData" -> SeqsUpTo(RawCourseRows, MaxRawRows)
      [] f = "normalizeModernData" -> SeqsUpTo(RawCourseRows, MaxRawRows)
      [] f = "normalizeTimeSpentData" -> SeqsUpTo(RawEntryRows, MaxEntryRows)
      [] f = "extractNumber" -> ClockStrings \cup PlainValues
      [] f = "mergeAndClassifyData" -> ReportedData
      [] f = "getCourseLengthHours" -> LengthCourses
      [] f = "computeAnalytics" -> UnifiedDatasets
      [] f = "normalizeCourseName" -> CourseNames

\* the call in progress returns value
Return(value) ==
    /\ ~returned
    /\ result' = value
    /\ returned' = TRUE
    /\ UNCHANGED <<fn, arg, mergeVars, appVars>>

CallNormalizeLegacyData == fn = "normalizeLegacyData" /\ Return(normalizeLegacyData(arg))

CallNormalizeModernData == fn = "normalizeModernData" /\ Return(normalizeModernData(arg))

CallNormalizeTimeSpentData == fn = "normalizeTimeSpentData" /\ Return(normalizeTimeSpentData(arg))

CallExtractNumber == fn = "extractNumber" /\ Return(extractNumber(arg))

CallMergeAndClassifyData ==
    /\ fn = "mergeAndClassifyData"
    /\ Return(mergeAndClassifyData(arg.legacyData, arg.modernData, arg.timeSpentData))

CallGetCourseLengthHours ==
    fn = "getCourseLengthHours" /\ Return(getCourseLengthHours(arg))

CallComputeAnalytics == fn = "computeAnalytics" /\ Return(computeAnalytics(arg))

CallNormalizeCourseName ==
    fn = "normalizeCourseName" /\ Return(normalizeCourseName(arg))

InitApply ==
    /\ fn \in Functions
    /\ arg \in Arguments(fn)
    /\ result = Null
    /\ returned = FALSE
    /\ AppIdle
    /\ MergeIdle

NextApply ==
    \/ CallNormalizeLegacyData
    \/ CallNormalizeModernData
    \/ CallNormalizeTimeSpentData
    \/ CallExtractNumber
    \/ CallMergeAndClassifyData
    \/ CallGetCourseLengthHours
    \/ CallComputeAnalytics
    \/ CallNormalizeCourseName

SpecApply == InitApply /\ [][NextApply]_vars

\* ------------------------------------------------------------------------
\* The pipeline run twice on the same files
\* ------------------------------------------------------------------------
\* Steps 2 and 3 of the handler, the normalizers having returned
Outcome(legacyResult, modernResult, timeSpentResult) ==
    [legacy |-> legacyResult, modern |-> modernResult, timeSpent |-> timeSpentResult,
     merge |-> mergeAndClassifyData(legacyResult.data, modernResult.data,
                                    timeSpentResult.data)]

\* the three normalizers and the merge, on the rows of three sheets
normalizeAndMerge(sheets) ==
    Outcome(normalizeLegacyData(sheets.legacy), normalizeModernData(sheets.modern),
            normalizeTimeSpentData(sheets.timeSpent))

\* the sheets the pipeline is run on
Sheets ==
    {[legacy |-> legacy, modern |-> modern, timeSpent |-> timeSpent] :
        legacy \in SeqsUpTo(LegacyCatalog, MaxLegacy),
        modern \in SeqsUpTo(ModernCatalog, MaxModern),
        timeSpent \in SeqsUpTo(TimeSpentCatalog, MaxTime)}

\* result holds what the runs so far have returned
FirstRun ==
    /\ fn = "normalizeAndMerge"
    /\ result = <<>>
    /\ result' = <<normalizeAndMerge(arg)>>
    /\ UNCHANGED <<fn, arg, returned, mergeVars, appVars>>

\* a second run whose diagnostics are added to those the first run left
SecondRunAccumulating ==
    /\ fn = "normalizeAndMerge"
    /\ Len(result) = 1
    /\ result' = Append(result,
           [normalizeAndMerge(arg) EXCEPT
               !.merge.errors = result[1].merge.errors \o @])
    /\ returned' = TRUE
    /\ UNCHANGED <<fn, arg, mergeVars, appVars>>

\* the second run: every array and Map of the pipeline is local to the call
SecondRun ==
    /\ fn = "normalizeAndMerge"
    /\ Len(result) = 1
    /\ result' = Append(result, normalizeAndMerge(arg))
    /\ returned' = TRUE
    /\ UNCHANGED <<fn, arg, mergeVars, appVars>>

InitTwice ==
    /\ fn = "normalizeAndMerge"
    /\ arg \in Sheets
    /\ result = <<>>
    /\ returned = FALSE
    /\ AppIdle
    /\ MergeIdle

NextTwice == FirstRun \/ SecondRun

SpecTwice == InitTwice /\ [][NextTwice]_vars

\* ------------------------------------------------------------------------
\* Properties of the normalizers
\* ------------------------------------------------------------------------
\* the course-name column of a Legacy or Modern row is absent, or its cell
\* is blank once trimmed
NameMissing(row) ==
    \/ FindKey(row, "courseName", 1) = ""
    \/ ~NonBlank(Get(row, FindKey(row, "courseName", 1)))

\* what a normalizer returns for a sheet of one row
Single(f, row) ==
    IF f = "normalizeLegacyData" THEN normalizeLegacyData(<<row>>)
    ELSE normalizeModernData(<<row>>)

\* the records of the rows of a sheet, each normalized on its own, in order
RECURSIVE RowByRow(_, _, _)
RowByRow(f, rows, i) ==
    IF i > Len(rows) THEN <<>> ELSE Single(f, rows[i]).data \o RowByRow(f, rows, i + 1)

\* the positions of the diagnostics of a severity
OfSeverity(diagnostics, severity) ==
    {e \in 1..Len(diagnostics) : diagnostics[e].severity = severity}

\* C13: a call of normalizeLegacyData or normalizeModernData having
\* returned, the rows without a course name are exactly the rows with an
\* error diagnostic, one each, and yield no record; every other row yields
\* exactly one record, that of the row normalized on its own, with a
\* non-empty course name, in input order; so records plus errors make the
\* number of rows
C13_RowLocal ==
    (returned /\ fn \in {"normalizeLegacyData", "normalizeModernData"}) =>
        LET missing == {i \in 1..Len(arg) : NameMissing(arg[i])}
            critical == OfSeverity(result.errors, "error")
        IN /\ Cardinality(critical) = Cardinality(missing)
           /\ {result.errors[e].row - 1 : e \in critical} = missing
           /\ \A e \in critical :
                 /\ result.errors[e].message = "Missing or empty course name"
                 /\ result.errors[e].field = "Course Name"
           /\ \A e \in 1..Len(result.errors) :
                 result.errors[e].severity \in {"error", "warning"}
           /\ Len(result.data) + Cardinality(critical) = Len(arg)
           /\ result.data = RowByRow(fn, arg, 1)
           /\ \A i \in 1..Len(arg) :
                 IF i \in missing
                 THEN Single(fn, arg[i]).data = <<>>
                 ELSE /\ Len(Single(fn, arg[i]).data) = 1
                      /\ OfSeverity(Single(fn, arg[i]).errors, "error") = {}
                      /\ Truthy(Get(Single(fn, arg[i]).data[1], "courseName"))

\* normalizeLegacyData has returned for a sheet of three rows whose second
\* has a blank course name: two records, one error, for row 3 of the sheet
C13_Witness ==
    /\ returned
    /\ fn = "normalizeLegacyData"
    /\ Len(arg) = 3
    /\ ~NameMissing(arg[1]) /\ NameMissing(arg[2]) /\ ~NameMissing(arg[3])
    /\ Len(result.data) = 2
    /\ \E e \in 1..Len(result.errors) :
          result.errors[e].severity = "error" /\ result.errors[e].row = 3

\* the course-name column of a Time Spent row is absent or its cell is blank
EntryNameMissing(row) ==
    \/ FindKey(row, "entryCourse", 1) = ""
    \/ ~NonBlank(Get(row, FindKey(row, "entryCourse", 1)))

\* the positions of the rows of a Time Spent sheet with, or without, a name
EntryRows(rows, missing) ==
    {i \in 1..Len(rows) : EntryNameMissing(rows[i]) = missing}

\* the records of the rows of a Time Spent sheet, each normalized on its own
RECURSIVE EntryByEntry(_, _)
EntryByEntry(rows, i) ==
    IF i > Len(rows) THEN <<>>
    ELSE normalizeTimeSpentData(<<rows[i]>>).data \o EntryByEntry(rows, i + 1)

\* C14: a call of normalizeTimeSpentData having returned, the rows without
\* a course name yield no record and no error, only warnings, one for each
\* of the first five such rows and none afterwards; the rows with a name
\* yield one record each, in input order
C14_BlankEntriesCapped ==
    (returned /\ fn = "normalizeTimeSpentData") =>
        LET blank == EntryRows(arg, TRUE)
            named == EntryRows(arg, FALSE)
            early == {i \in blank : Cardinality({j \in blank : j < i}) < 5}
        IN /\ Len(result.data) = Cardinality(named)
           /\ result.data = EntryByEntry(arg, 1)
           /\ \A i \in 1..Len(arg) :
                 Len(normalizeTimeSpentData(<<arg[i]>>).data) = IF i \in named THEN 1 ELSE 0
           /\ \A k \in 1..Len(result.data) : Truthy(Get(result.data[k], "courseName"))
           /\ OfSeverity(result.errors, "error") = {}
           /\ \A e \in 1..Len(result.errors) :
                 /\ result.errors[e].severity = "warning"
                 /\ result.errors[e].field = "Course Name"
           /\ Len(result.errors) <= 5
           /\ Len(result.errors) = Cardinality(early)
           /\ {result.errors[e].row - 1 : e \in 1..Len(result.errors)} = early
           /\ \A e, f \in 1..Len(result.errors) :
                 e < f => result.errors[e].row < result.errors[f].row

\* normalizeTimeSpentData has returned for a sheet of seven rows, six of
\* them without a course name: five warnings, the sixth such row silent,
\* and the record of the named row
C14_Witness ==
    /\ returned
    /\ fn = "normalizeTimeSpentData"
    /\ Len(arg) = 7
    /\ Cardinality(EntryRows(arg, TRUE)) = 6
    /\ ~EntryNameMissing(arg[3])
    /\ Len(result.errors) = 5
    /\ Len(result.data) = 1
    /\ Get(result.data[1], "courseName") = Str("Fire Safety 101")

\* the diagnostics of the merge of the files of the run
ReconciliationDiagnostics ==
    mergeAndClassifyData(normalizeLegacyData(files.legacy.rows).data,
                         normalizeModernData(files.modern.rows).data,
                         normalizeTimeSpentData(files.timeSpent.rows).data).errors

\* C15: after a run that has gone through, the errors list is the
\* diagnostics of the Legacy normalizer, then those of the Modern
\* normalizer, then those of the Time Spent normalizer, then those of the
\* merge, each group in the order its producer returned it
C15_ErrorsInSourceOrder ==
    Published =>
        errors = normalizeLegacyData(files.legacy.rows).errors
                     \o normalizeModernData(files.modern.rows).errors
                     \o normalizeTimeSpentData(files.timeSpent.rows).errors
                     \o ReconciliationDiagnostics

\* a run has gone through with diagnostics of the Legacy normalizer, of the
\* Time Spent normalizer and of the merge, the last ones at the end
C15_Witness ==
    /\ Published
    /\ normalizeLegacyData(files.legacy.rows).errors # <<>>
    /\ normalizeTimeSpentData(files.timeSpent.rows).errors # <<>>
    /\ ReconciliationDiagnostics # <<>>
    /\ Len(errors) >= 3
    /\ errors[1].file = "Legacy Course Data"
    /\ errors[Len(errors)] = ReconciliationDiagnostics[Len(ReconciliationDiagnostics)]
    /\ errors[Len(errors)] # errors[1]

\* the rows of a sheet a normalizer keeps, in order
RECURSIVE KeptRows(_, _, _)
KeptRows(f, rows, i) ==
    IF i > Len(rows) THEN <<>>
    ELSE IF (IF f = "normalizeTimeSpentData" THEN EntryNameMissing(rows[i])
             ELSE NameMissing(rows[i]))
         THEN KeptRows(f, rows, i + 1)
         ELSE <<rows[i]>> \o KeptRows(f, rows, i + 1)

\* a record holds every cell of a row under the header of the cell
HoldsVerbatim(record, row) ==
    \A c \in 1..Len(row) : Has(record, row[c].k) /\ Get(record, row[c].k) = row[c].v

\* C16: a call of one of the three normalizers having returned, the record
\* of every kept row holds, for every column header of the row, the cell of
\* the row under that header, the columns recognized as course name,
\* category, time or user included
C16_EveryColumnPreserved ==
    (returned /\ fn \in {"normalizeLegacyData", "normalizeModernData",
                          "normalizeTimeSpentData"}) =>
        /\ Len(result.data) = Len(KeptRows(fn, arg, 1))
        /\ \A k \in 1..Len(result.data) :
              HoldsVerbatim(result.data[k], KeptRows(fn, arg, 1)[k])

\* the part of C16 the code has: the Legacy and the Modern normalizer copy
\* every column, and the Time Spent normalizer every column it did not
\* recognize as course name, category, time or user
C16_OtherColumnsPreserved ==
    (returned /\ fn \in {"normalizeLegacyData", "normalizeModernData",
                          "normalizeTimeSpentData"}) =>
        /\ Len(result.data) = Len(KeptRows(fn, arg, 1))
        /\ \A k \in 1..Len(result.data) :
              IF fn = "normalizeTimeSpentData"
              THEN \A c \in 1..Len(KeptRows(fn, arg, 1)[k]) :
                     LET row == KeptRows(fn, arg, 1)[k]
                     IN row[c].k \notin {FindKey(row, "entryCourse", 1),
                                         FindKey(row, "category", 1),
                                         FindKey(row, "entryTime", 1),
                                         FindKey(row, "user", 1)}
                            => Get(result.data[k], row[c].k) = row[c].v
              ELSE HoldsVerbatim(result.data[k], KeptRows(fn, arg, 1)[k])

\* normalizeTimeSpentData has returned the record of a row with the columns
\* Course, Category, Hours, User and Notes: the record holds Notes alone of
\* the five headers, and the hours as a number in place of the cell "0:30"
C16_Witness ==
    /\ returned
    /\ fn = "normalizeTimeSpentData"
    /\ Len(arg) = 1
    /\ Get(arg[1], "Hours") = Str("0:30")
    /\ Len(result.data) = 1
    /\ ~Has(result.data[1], "Course")
    /\ ~Has(result.data[1], "Hours")
    /\ ~Has(result.data[1], "User")
    /\ Get(result.data[1], "Notes") = Str("n/a")
    /\ Get(result.data[1], "hours") = Num(1800)
    /\ Get(result.data[1], "courseName") = Str("Fire Safety 101")

\* ------------------------------------------------------------------------
\* Properties of extractNumber
\* ------------------------------------------------------------------------
\* a string of decimal digits with at most one decimal point, and a digit
IsPlainNumeric(str) ==
    /\ Len(Split(str, ".", "")) \in {1, 2}
    /\ \A k \in 1..Len(Split(str, ".", "")) :
          Split(str, ".", "")[k] = "" \/ IsDigits(Split(str, ".", "")[k])
    /\ \E k \in 1..Len(Split(str, ".", "")) : IsDigits(Split(str, ".", "")[k])

\* the number a plain numeric string denotes
Denoted(str) ==
    LET parts == Split(str, ".", "")
        fraction == IF Len(parts) = 2 THEN parts[2] ELSE ""
    IN Num(ParseInt(parts[1]) * Scale + (ParseInt(fraction) * Scale) \div Pow10(Len(fraction)))

\* a string without the characters that are neither digits nor dots
RECURSIVE DigitsAndDots(_, _)
DigitsAndDots(str, i) ==
    IF i > Len(str) THEN ""
    ELSE IF IsDigit(Char(str, i)) \/ Char(str, i) = "."
         THEN Char(str, i) \o DigitsAndDots(str, i + 1)
         ELSE DigitsAndDots(str, i + 1)

\* a string holds a given character
Holds(str, c) == \E i \in 1..Len(str) : Char(str, i) = c

\* C17: a call of extractNumber on a string having returned, a string of
\* decimal digits with an optional decimal point yields the number it
\* denotes, and a string that is no clock string yields the number parsed
\* from what is left of it once the characters that are neither digits nor
\* dots are removed, 0 if nothing parses
C17_PlainNumericAccepted ==
    (returned /\ fn = "extractNumber" /\ IsStr(arg)) =>
        /\ IsPlainNumeric(arg.s) => result = Denoted(arg.s)
        /\ ~Holds(arg.s, ":") =>
              result = ZeroIfNaN(ParseFloat(DigitsAndDots(Trim(arg.s), 1)))

\* what the code has in place of C17: a string that is no clock string
\* yields 0, whatever its digits
C17_FallbackYieldsZero ==
    (returned /\ fn = "extractNumber" /\ IsStr(arg) /\ ~Holds(arg.s, ":")) =>
        result = Whole(0)

\* extractNumber has returned 0 for the string "12"
C17_Witness ==
    /\ returned
    /\ fn = "extractNumber"
    /\ arg = Str("12")
    /\ result = Whole(0)

\* C18: a call of extractNumber on a clock string h:m or h:m:s, with or
\* without an AM/PM marker, having returned, the result is h + m/60 + s/3600
\* hours, whatever the marker; and the record normalizeLegacyData returns
\* for a row with "Time spent" = "2:30" and Reporting = "2023-05-01" has
\* totalTime 2.5 and year 2023
C18_ClockStringsAreDurations ==
    /\ (returned /\ fn = "extractNumber") =>
          \A h \in HourFields, m \in MinuteFields, sec \in SecondFields, marker \in Markers :
              arg = Str(h \o ":" \o m \o sec \o marker) =>
                  result = Num(ParseInt(h) * 3600 + ParseInt(m) * 60
                               + (IF sec = "" THEN 0 ELSE ParseInt(SubSeq(sec, 2, Len(sec)))))
    /\ (returned /\ fn = "normalizeLegacyData") =>
          \A k \in 1..Len(result.data) :
              (/\ Get(result.data[k], "Time spent") = Str("2:30")
               /\ Get(result.data[k], "Reporting") = Str("2023-05-01")) =>
                  /\ Get(result.data[k], "totalTime") = Num(9000)
                  /\ Get(result.data[k], "year") = Whole(2023)
                  /\ Get(result.data[k], "courseName") = Str("Fire Safety 101")

\* extractNumber has returned 2 h 30 min 45 s for "2:30:45 PM"
C18_Witness ==
    /\ returned
    /\ fn = "extractNumber"
    /\ arg = Str("2:30:45 PM")
    /\ result = Num(9045)

\* normalizeLegacyData has returned the record of the row of the example
C18_WitnessRow ==
    /\ returned
    /\ fn = "normalizeLegacyData"
    /\ Len(arg) = 1
    /\ Get(arg[1], "Time spent") = Str("2:30")
    /\ Get(arg[1], "Reporting") = Str("2023-05-01")
    /\ Len(result.data) = 1
    /\ Get(result.data[1], "totalTime") = Num(9000)
    /\ Get(result.data[1], "year") = Whole(2023)

\* ------------------------------------------------------------------------
\* Properties of the identity year
\* ------------------------------------------------------------------------
\* the year of the first Reporting column of the scope of the file, if any
ScopedYear(record, fileType) ==
    IF FindKey(record, "reporting" \o fileType, 1) # ""
    THEN extractYear(Get(record, FindKey(record, "reporting" \o fileType, 1)))
    ELSE Undefined

\* the year of the first Reporting column of the scope of the file when its
\* cell is not empty, else that of the first Reporting column of any scope
\* when its cell is not empty
ConsultedYear(record, fileType) ==
    IF Truthy(Get(record, FindKey(record, "reporting" \o fileType, 1)))
    THEN extractYear(Get(record, FindKey(record, "reporting" \o fileType, 1)))
    ELSE IF Truthy(Get(record, FindKey(record, "reporting", 1)))
    THEN extractYear(Get(record, FindKey(record, "reporting", 1)))
    ELSE Undefined

\* the result of a merge keys every record by the year Lookup reads from
\* its Reporting columns, else by the year of the record, else by the
\* default of its file (2024, 2026), and warns of the records for which
\* Lookup reads no year, and of no other
KeyedBy(Lookup(_, _), legacyRecords, modernRecords, merged) ==
    LET legacyId(i) ==
            <<normalizeCourseName(Get(legacyRecords[i], "courseName")),
              Or(Or(Lookup(legacyRecords[i], "Legacy"), Get(legacyRecords[i], "year")), Whole(2024))>>
        modernId(i) ==
            <<normalizeCourseName(Get(modernRecords[i], "courseName")),
              Or(Or(Lookup(modernRecords[i], "Modern"), Get(modernRecords[i], "year")), Whole(2026))>>
        instance(source, i, record, year) ==
            \E u \in 1..Len(merged.unified) :
                /\ merged.unified[u].rawRecords[source] = Ref(i, record)
                /\ merged.unified[u].reportingYear = year
                /\ merged.unified[u].year = year
        reported == {e \in 1..Len(merged.errors) : merged.errors[e].field = "Reporting"}
        unread == {<<"Legacy Course Data", i + 1>> :
                      i \in {j \in 1..Len(legacyRecords) : ~Truthy(Lookup(legacyRecords[j], "Legacy"))}}
                  \cup {<<"Modern Course Data", i + 1>> :
                      i \in {j \in 1..Len(modernRecords) : ~Truthy(Lookup(modernRecords[j], "Modern"))}}
    IN /\ \A i \in 1..Len(legacyRecords) :
             instance("legacy", i, legacyRecords[i], legacyId(i)[2])
                 <=> ~\E j \in (i + 1)..Len(legacyRecords) : legacyId(j) = legacyId(i)
       /\ \A i \in 1..Len(modernRecords) :
             instance("modern", i, modernRecords[i], modernId(i)[2])
                 <=> /\ ~\E j \in 1..Len(legacyRecords) : legacyId(j) = modernId(i)
                     /\ ~\E j \in 1..(i - 1) : modernId(j) = modernId(i)
       /\ \A e \in reported : merged.errors[e].severity = "warning"
       /\ {<<merged.errors[e].file, merged.errors[e].row>> : e \in reported} = unread
       /\ Cardinality(reported) = Cardinality(unread)

\* C19 (as the code has it): a call of mergeAndClassifyData having returned,
\* every record is keyed by the year of its Reporting column, else by the
\* year of the record, else by 2024 (Legacy) or 2026 (Modern), the
\* Reporting column being the first one of the scope of the file or, when
\* there is none or its cell is empty, the first one of any scope; a
\* warning is emitted exactly for the records whose Reporting column, so
\* chosen, yields no year
C19_YearOfConsultedColumn ==
    (returned /\ fn = "mergeAndClassifyData") =>
        KeyedBy(ConsultedYear, arg.legacyData, arg.modernData, result)

\* C19 as stated: every record is keyed by the year of its Reporting column
\* of the scope of its file, else by the year of the record, else by 2024
\* or 2026, and a warning is emitted exactly for the records whose
\* Reporting column of that scope yields no year
C19_YearOfScopedColumn ==
    (returned /\ fn = "mergeAndClassifyData") =>
        KeyedBy(ScopedYear, arg.legacyData, arg.modernData, result)

\* mergeAndClassifyData has returned for a Legacy record of year 2022 whose
\* only Reporting column is of the Modern scope and reads 2025, and a Modern
\* record without Reporting column nor year: instances of 2025 and 2026,
\* and one warning, for the Modern record
C19_Witness ==
    /\ returned
    /\ fn = "mergeAndClassifyData"
    /\ Len(arg.legacyData) = 1
    /\ Len(arg.modernData) = 1
    /\ Get(arg.legacyData[1], "year") = Whole(2022)
    /\ Get(arg.legacyData[1], "[LCT] Reporting (M)") = Str("2025-01-15")
    /\ ScopedYear(arg.legacyData[1], "Legacy") = Undefined
    /\ ~Has(arg.modernData[1], "year")
    /\ ConsultedYear(arg.modernData[1], "Modern") = Undefined
    /\ Len(result.unified) = 2
    /\ result.unified[1].year = Whole(2025)
    /\ result.unified[2].year = Whole(2026)
    /\ Len(result.errors) = 1
    /\ result.errors[1].file = "Modern Course Data"
    /\ result.errors[1].field = "Reporting"

\* ------------------------------------------------------------------------
\* Properties of getCourseLengthHours
\* ------------------------------------------------------------------------
\* the course length written in the metadata of a course
PhraseOf(course) == Get(course.metadata, "Course Length")

\* the rules of getCourseLengthHours, applied in their order to the phrases
\* written for each, with the given outcome for a text without a number
RulesInOrder(course, length, textOutcome) ==
    /\ \A phrase \in LessThanPhrases :
          PhraseOf(course) = Str(phrase) => length = Num(1800)
    /\ \A h \in LengthHours, m \in LengthMinutes, sec \in LengthSeconds :
          PhraseOf(course) = Str(h \o ":" \o m \o sec) =>
              length = Num(ParseInt(h) * 3600 + ParseInt(m) * 60
                           + (IF sec = "" THEN 0 ELSE ParseInt(SubSeq(sec, 2, Len(sec)))))
    /\ \A x \in RangeStarts, sep \in RangeSeparators, y \in RangeEnds,
          suffix \in RangeSuffixes :
          PhraseOf(course) = Str(x \o sep \o y \o suffix) =>
              length = Num((Denoted(x).n + Denoted(y).n) \div 2)
    /\ \A n \in Amounts, gap \in Gaps, unit \in {"min", "mins", "minute", "Minutes"} :
          PhraseOf(course) = Str(n \o gap \o unit) => length = Num(Denoted(n).n \div 60)
    /\ \A n \in Amounts, gap \in Gaps, unit \in {"h", "hr", "hrs", "hour", "Hours"} :
          PhraseOf(course) = Str(n \o gap \o unit) => length = Denoted(n)
    /\ \A phrase \in BarePhrases :
          PhraseOf(course) = Str(phrase) => length = Denoted(Trim(phrase))
    /\ \A phrase \in TextPhrases :
          PhraseOf(course) = Str(phrase) => length = textOutcome
    /\ (\/ PhraseOf(course) \in {Str(""), Str("  ")}
        \/ \A c \in 1..Len(course.metadata) : course.metadata[c].k \in {"Status", "Length"})
           => length = Null

\* C20: a call of getCourseLengthHours having returned, a phrase with
\* "less than" or "under" and "hour" gives 0.5; else a clock h:mm[:ss] gives
\* h + m/60 + s/3600; else a range "x to y" gives the midpoint, whatever
\* unit follows; else "n min(s)" gives n/60; else "n h/hr/hrs/hour(s)" gives
\* n; else a bare number gives its value; and a text that contains no
\* number, like an absent or empty length, gives null
C20_NullWithoutNumber ==
    (returned /\ fn = "getCourseLengthHours") => RulesInOrder(arg, result, Null)

\* what the code has in place of C20: the same rules in the same order, but
\* a text without digits nor dots gives 0; null is given only by an absent
\* or empty length and by a leftover, once everything but digits and dots
\* is removed, that is no number ("1.2.3", "e.g.")
C20_ZeroWithoutNumber ==
    (returned /\ fn = "getCourseLengthHours") =>
        /\ RulesInOrder(arg, result, Whole(0))
        /\ PhraseOf(arg) \in {Str("1.2.3"), Str("e.g."), Whole(0)} => result = Null
        /\ PhraseOf(arg) = Str("1 hour 30 min") => result = Num(1800)
        /\ PhraseOf(arg) = Str("Under 90 minutes") => result = Num(5400)
        /\ PhraseOf(arg) = Str("2 hours to 3") => result = Whole(2)
        /\ PhraseOf(arg) \in {Str("approx 3"), Str(" 3 ")} => result = Whole(3)
        /\ PhraseOf(arg) = Str("15 minimum") => result = Whole(15)
        /\ PhraseOf(arg) = Whole(2) => result = Whole(2)
        /\ PhraseOf(arg) = Num(5400) => result = Num(5400)
        /\ Has(arg.metadata, "COURSE LENGTH (hrs)") => result = Whole(2)

\* getCourseLengthHours has returned 0 for the course length "tbd"
C20_Witness ==
    /\ returned
    /\ fn = "getCourseLengthHours"
    /\ PhraseOf(arg) = Str("tbd")
    /\ result = Whole(0)

C22_DashboardOfThisRun ==
    currentStep = 3 =>
        /\ \A s \in Sources : files[s].ok
        /\ unifiedData =
               mergeAndClassifyData(normalizeLegacyData(files.legacy.rows).data,
                                    normalizeModernData(files.modern.rows).data,
                                    normalizeTimeSpentData(files.timeSpent.rows).data).unified
        /\ analytics # Null
        /\ analytics = computeAnalytics(unifiedData)

\* the dashboard is shown after a second run, the first one having been
\* stopped, with two instances or more
C22_Witness ==
    /\ currentStep = 3
    /\ hpc = "idle"
    /\ runs = 2
    /\ Len(unifiedData) >= 2
    /\ analytics # Null

\* C26: a run is started only while currentStep is 1 and no run is in
\* flight, and starting it sets currentStep to 2 as the decodes begin; a run
\* is in flight exactly while currentStep is 2, so two runs never overlap
\* and unifiedData is written by the one run in flight only
C26_OneRunInFlight ==
    /\ [](hpc = "awaiting" <=> currentStep = 2)
    /\ [][runs' # runs =>
             /\ hpc = "idle" /\ currentStep = 1
             /\ hpc' = "awaiting" /\ currentStep' = 2
             /\ \A s \in Sources : decode'[s] = "reading"]_vars
    /\ [][unifiedData' # unifiedData => (hpc = "awaiting" /\ hpc' = "idle")]_vars

\* a second run is in flight, the first one being over
C26_Witness ==
    /\ runs = 2
    /\ hpc = "awaiting"
    /\ currentStep = 2
    /\ \E s \in Sources : decode[s] = "reading"
    /\ errors = <<>>

\* C27: currentStep moves only from 1 to 2, from 2 to 3 and from 2 to 1;
\* once it is 3, no click and no event changes it, no run is started and
\* unifiedData is not replaced
C27_StepsOfTheSession ==
    /\ [][currentStep' # currentStep =>
             <<currentStep, currentStep'>> \in {<<1, 2>>, <<2, 3>>, <<2, 1>>}]_vars
    /\ [][currentStep = 3 =>
             /\ currentStep' = 3
             /\ runs' = runs
             /\ hpc' = "idle"
             /\ unifiedData' = unifiedData
             /\ analytics' = analytics]_vars

\* the dashboard having been shown, the user has gone to another page and
\* back to the path of the upload page: currentStep is still 3
C27_Witness ==
    /\ currentStep = 3
    /\ route = "/development"
    /\ Len(unifiedData) > 0
    /\ runs = 1

\* ------------------------------------------------------------------------
\* Properties of the aggregation
\* ------------------------------------------------------------------------
\* f[1] + ... + f[n]
RECURSIVE Total(_, _)
Total(f, n) == IF n = 0 THEN 0 ELSE f[n] + Total(f, n - 1)

\* q is a / n: a number of scaled units, or a fraction of them
IsQuotient(q, a, n) ==
    IF IsNum(q) THEN q.n * n = a
    ELSE q.t = "fraction" /\ q.d > 1 /\ q.n * n = a * q.d

\* the instances of a classification
Of(courses, classification) ==
    {i \in 1..Len(courses) : courses[i].classification = classification}

\* the scaled hours of all instances
HoursOf(courses) == Total([i \in 1..Len(courses) |-> courses[i].totalTime.n], Len(courses))

\* C23: the summary computeAnalytics returns holds the number of instances,
\* the numbers of instances that are not In Progress, that are In Progress,
\* Legacy and Modern, so that total = completed + in progress and completed =
\* legacy + modern; totalTimeSpent is the sum of totalTime over the instances
\* and averageTimePerCourse is that sum divided by their number, 0 for none
C23_SummaryCounts ==
    (fn = "computeAnalytics" /\ returned) =>
        /\ result.summary.totalCourses = Whole(Len(arg))
        /\ result.summary.completedCourses =
               Whole(Cardinality({i \in 1..Len(arg) : arg[i].classification # "In Progress"}))
        /\ result.summary.inProgressCourses = Whole(Cardinality(Of(arg, "In Progress")))
        /\ result.summary.legacyCourses = Whole(Cardinality(Of(arg, "Legacy")))
        /\ result.summary.modernCourses = Whole(Cardinality(Of(arg, "Modern")))
        /\ result.summary.totalCourses.n =
               result.summary.completedCourses.n + result.summary.inProgressCourses.n
        /\ result.summary.completedCourses.n =
               result.summary.legacyCourses.n + result.summary.modernCourses.n
        /\ result.summary.totalTimeSpent = Num(HoursOf(arg))
        /\ IF Len(arg) = 0
           THEN result.summary.averageTimePerCourse = Whole(0)
           ELSE IsQuotient(result.summary.averageTimePerCourse, HoursOf(arg), Len(arg))

\* a summary of instances of all three classifications whose average is the
\* totalTime of none of them
C23_Witness ==
    /\ fn = "computeAnalytics"
    /\ returned
    /\ Of(arg, "Legacy") # {}
    /\ Of(arg, "Modern") # {}
    /\ Of(arg, "In Progress") # {}
    /\ result.summary.totalTimeSpent.n > 0
    /\ \A i \in 1..Len(arg) : arg[i].totalTime # result.summary.averageTimePerCourse

\* the instances of a year
InYear(courses, year) ==
    {i \in 1..Len(courses) :
        (IF Truthy(courses[i].year) THEN courses[i].year ELSE Whole(CurrentYear)) = year}

\* the scaled hours of the instances in I
HoursIn(courses, I) ==
    Total([i \in 1..Len(courses) |-> IF i \in I THEN courses[i].totalTime.n ELSE 0],
          Len(courses))

\* C24: byYear has one entry per year of the instances, in strictly
\* ascending order of the year; the entry of a year holds the number and the
\* summed totalTime of the instances of that year, and their quotient as
\* avgTime; the counts add up to totalCourses and the totals to totalTimeSpent
C24_ByYear ==
    (fn = "computeAnalytics" /\ returned) =>
        /\ {result.byYear[j].year : j \in 1..Len(result.byYear)} =
               {IF Truthy(arg[i].year) THEN arg[i].year ELSE Whole(CurrentYear) :
                   i \in 1..Len(arg)}
        /\ \A j \in 1..Len(result.byYear) - 1 :
               result.byYear[j].year.n < result.byYear[j + 1].year.n
        /\ \A j \in 1..Len(result.byYear) :
               /\ result.byYear[j].count =
                      Whole(Cardinality(InYear(arg, result.byYear[j].year)))
               /\ result.byYear[j].totalTime =
                      Num(HoursIn(arg, InYear(arg, result.byYear[j].year)))
               /\ IsQuotient(result.byYear[j].avgTime, result.byYear[j].totalTime.n,
                             Cardinality(InYear(arg, result.byYear[j].year)))
        /\ Total([j \in 1..Len(result.byYear) |-> result.byYear[j].count.n],
                 Len(result.byYear)) = result.summary.totalCourses.n
        /\ Total([j \in 1..Len(result.byYear) |-> result.byYear[j].totalTime.n],
                 Len(result.byYear)) = result.summary.totalTimeSpent.n

\* three years, the instances of the later one first in the dataset, and a
\* year of two instances or more
C24_Witness ==
    /\ fn = "computeAnalytics"
    /\ returned
    /\ Len(result.byYear) >= 3
    /\ Len(arg) >= 2
    /\ arg[1].year.n > arg[2].year.n
    /\ \E j \in 1..Len(result.byYear) : result.byYear[j].count.n >= 2 * Scale

\* the instances whose categoryBreakdown has the category
WithCategory(courses, category) ==
    {i \in 1..Len(courses) :
        /\ Truthy(courses[i].categoryBreakdown)
        /\ Has(courses[i].categoryBreakdown.entries, category)}

\* the category labels of the dataset
Labels(courses) ==
    UNION {{courses[i].categoryBreakdown.entries[j].k :
               j \in 1..Len(courses[i].categoryBreakdown.entries)} :
           i \in {i \in 1..Len(courses) : Truthy(courses[i].categoryBreakdown)}}

\* the scaled hours of a category over all instances
CategoryHours(courses, category) ==
    Total([i \in 1..Len(courses) |->
              IF i \in WithCategory(courses, category)
              THEN Get(courses[i].categoryBreakdown.entries, category).n ELSE 0],
          Len(courses))

\* C25: byCategory has one entry per category label of any categoryBreakdown,
\* in order of non-increasing totalTime; the entry of a category holds the sum
\* of the hours of that category over all instances, and as courseCount the
\* number of distinct courses having the category, a course that contributes
\* more than once being counted once
C25_ByCategory ==
    (fn = "computeAnalytics" /\ returned) =>
        /\ Len(result.byCategory) = Cardinality(Labels(arg))
        /\ {result.byCategory[j].category : j \in 1..Len(result.byCategory)} = Labels(arg)
        /\ \A j \in 1..Len(result.byCategory) - 1 :
               result.byCategory[j].totalTime.n >= result.byCategory[j + 1].totalTime.n
        /\ \A j \in 1..Len(result.byCategory) :
               /\ result.byCategory[j].totalTime =
                      Num(CategoryHours(arg, result.byCategory[j].category))
               /\ result.byCategory[j].courseCount =
                      Whole(Cardinality(
                          {arg[i].normalizedCourseName :
                              i \in WithCategory(arg, result.byCategory[j].category)}))

\* two categories, the one of more hours met last, and a course that
\* contributes to a category through two instances
C25_Witness ==
    /\ fn = "computeAnalytics"
    /\ returned
    /\ Len(result.byCategory) >= 2
    /\ \E j \in 1..Len(result.byCategory) :
           /\ Cardinality(WithCategory(arg, result.byCategory[j].category)) >= 2
           /\ result.byCategory[j].courseCount = Whole(1)
    /\ \E i \in 1..Len(arg) :
           /\ Truthy(arg[i].categoryBreakdown)
           /\ \A k \in 1..Len(arg) :
                  (k # i /\ Truthy(arg[k].categoryBreakdown)) => k > i
           /\ arg[i].categoryBreakdown.entries[1].k # result.byCategory[1].category

\* ------------------------------------------------------------------------
\* Properties of the size of the dataset
\* ------------------------------------------------------------------------
\* the number of instances of a classification in the course map
Instances(classification) ==
    Cardinality({j \in Courses : Course(j).classification = classification})

\* the number of duplicate-course-instance warnings emitted
DuplicateWarnings ==
    Cardinality({k \in 1..Len(mst.errors) : IsDuplicateWarning(mst.errors[k])})

\* C28: the merge being over, the Legacy instances, the Modern instances and
\* the duplicate-course-instance warnings are together as many as the Legacy
\* and Modern records passed in: no record of a course file is lost silently
C28_NoBaseRecordLost ==
    pc = "done" =>
        Instances("Legacy") + Instances("Modern") + DuplicateWarnings
            = Len(legacyData) + Len(modernData)

\* what holds of the sizes: every Modern record is an instance or a
\* duplicate warning, and the Legacy instances are at most as many as the
\* Legacy records
C28_NoModernRecordLost ==
    pc = "done" =>
        /\ Instances("Modern") + DuplicateWarnings = Len(modernData)
        /\ Instances("Legacy") <= Len(legacyData)

\* two Legacy records have left one instance and no warning of a duplicate
C28_Witness ==
    /\ pc = "done"
    /\ Len(legacyData) = 2
    /\ Instances("Legacy") = 1
    /\ DuplicateWarnings = 0

\* the key of the instance the synthesis step is about to insert
SynthKey ==
    createCourseKey(OriginalName(mst.timeSpentByCourse[idx].v), Whole(CurrentYear))

\* C29: the key of a synthesized In Progress instance is not in the course
\* map when the instance is inserted, so the map grows by one and no instance
\* is replaced; the merge being over, the map holds the Legacy and Modern
\* instances and one In Progress instance per group of time entries that the
\* attach step has left
C29_SynthesisNeverOverwrites ==
    /\ [][pc = "synth" =>
             /\ ~Has(mst.courseMap, SynthKey)
             /\ Len(mst'.courseMap) = Len(mst.courseMap) + 1
             /\ \A j \in Courses : mst'.courseMap[j] = mst.courseMap[j]
             /\ mst'.courseMap[Len(mst'.courseMap)].k = SynthKey]_vars
    /\ [](pc = "done" =>
             /\ Instances("In Progress") = Len(mst.timeSpentByCourse)
             /\ Len(mst.courseMap) =
                    Instances("Legacy") + Instances("Modern") + Len(mst.timeSpentByCourse))

\* the merge is over: a group was attached to a Modern instance of the
\* current year, and another group has been synthesized
C29_Witness ==
    /\ pc = "done"
    /\ Instances("In Progress") >= 1
    /\ \E j \in Courses :
           /\ Course(j).classification = "Modern"
           /\ Course(j).year = Whole(CurrentYear)
           /\ Truthy(Course(j).categoryBreakdown)

\* ------------------------------------------------------------------------
\* Properties of the normalized course name
\* ------------------------------------------------------------------------
\* s neither begins nor ends with whitespace
Trimmed(s) == Len(s) = 0 \/ (~IsSpace(Char(s, 1)) /\ ~IsSpace(Char(s, Len(s))))

\* no two adjacent characters of s are whitespace
SingleSpaced(s) == \A i \in 1..Len(s) - 1 : ~(IsSpace(Char(s, i)) /\ IsSpace(Char(s, i + 1)))

\* s has a character that is no word character, no whitespace and no hyphen
HasSpecial(s) ==
    \E i \in 1..Len(s) : ~(IsWord(Char(s, i)) \/ IsSpace(Char(s, i)) \/ Char(s, i) = "-")

\* C30: the result of normalizeCourseName neither begins nor ends with
\* whitespace, has no two adjacent whitespace characters, and is a fixed
\* point of normalizeCourseName
C30_NormalizedAndIdempotent ==
    (fn = "normalizeCourseName" /\ returned) =>
        /\ Trimmed(result)
        /\ SingleSpaced(result)
        /\ normalizeCourseName(Str(result)) = result

\* what holds of the result: it has no upper-case letter and no special
\* character, and for a name without special characters it is trimmed,
\* single-spaced and a fixed point
C30_NormalizedWithoutSpecial ==
    (fn = "normalizeCourseName" /\ returned) =>
        /\ ~HasSpecial(result)
        /\ ToLowerCase(result) = result
        /\ ~HasSpecial(arg.s) =>
               /\ Trimmed(result)
               /\ SingleSpaced(result)
               /\ normalizeCourseName(Str(result)) = result

\* a special character between two spaces has been dropped: the result has
\* two adjacent spaces, and normalizing it again gives another name
C30_Witness ==
    /\ fn = "normalizeCourseName"
    /\ returned
    /\ arg = Str("Fire Safety & 101")
    /\ result = "fire safety  101"
    /\ normalizeCourseName(Str(result)) = "fire safety 101"

====
